---- MODULE Spec2Model ----
(***************************************************************************)
(* Failover decision-and-coordination engine of the Azure/GCP DR           *)
(* orchestrator: FailoverCoordinator (failover_coordinator.py) and         *)
(* DrOrchestratorEngine (orchestrator_engine.py), running as asyncio       *)
(* tasks of one event loop.  An action is one atomic block of a coroutine: *)
(* the code between two suspension points.                                 *)
(*                                                                         *)
(* Scores and confidences are integers in hundredths (0.5 is 50).  A read  *)
(* of the clock (datetime.utcnow()) is an input of the action that makes   *)
(* it.  None stands for Python's None.                                     *)
(*                                                                         *)
(* The health checks of the cloud function (cloud-functions/main.py) and   *)
(* of HealthMonitor (health_monitor.py) are functions of what their probes *)
(* return; their scores are Python floats, computed bit for bit.           *)
(*                                                                         *)
(* The canary failover (cloud-functions/canary-failover/main.py) is one    *)
(* synchronous call; an action is one of its stages, and what kubectl, GKE *)
(* and Cloud DNS answer is an input of the stage that asks.                *)
(***************************************************************************)
EXTENDS Integers, Sequences, FiniteSets, TLC

None == "None"

\* ---------------------------------------------------------------- bounds
\* The orchestration loop executes at most this many failovers.
MaxHistory == 2
\* Largest retry_count a step is configured with in SpecSteps.
MaxRetry == 3
\* Checkpoints created in SpecCheckpoints.
MaxCreated == 20

\* -------------------------------------------------------------- constants
\* FailoverStep.retry_count default
DefaultRetryCount == 3
\* _monitor_active_failovers: timedelta(minutes=30)
RunTimeoutMinutes == 30
\* _create_checkpoint: keep only last 10 checkpoints
MaxCheckpoints == 10
\* config failover.rto_target_seconds ("sub-5-minute RTO")
RtoTarget == 300
\* health_thresholds
NetworkLatencyMs == 500
DataReplicationLagSeconds == 30
\* _detect_critical_failures: overall_score < 0.5
CriticalScore == 50
\* _evaluate_rollback_conditions: overall_score > 0.95
RollbackScore == 95
\* confidences
ConfScore == 90
ConfDatabase == 95
ConfRegion == 99
ConfLatency == 80
ConfPerformance == 85
ConfRollback == 90

\* ------------------------------------------------------------------ tasks
\* The task of the orchestration loop, and a task that calls a trigger
\* operation directly, as main() does for --manual-failover.
Engine == "engine"
Manual == { "manual" }
Callers == {Engine} \cup Manual

\* ------------------------------------------------------------ step lists
azure_to_gcp_steps ==
    << "validate_gcp_readiness", "create_gcp_resources", "sync_final_data",
       "switch_database_primary", "start_gke_services", "update_dns_routing",
       "validate_gcp_traffic", "stop_azure_services" >>

gcp_to_azure_steps ==
    << "validate_azure_readiness", "create_azure_resources", "sync_final_data",
       "switch_database_primary", "start_aks_services", "update_dns_routing",
       "validate_azure_traffic", "stop_gcp_services" >>

\* The step list of a direction (target_env "gcp" or "azure").
StepsFor(target) == IF target = "gcp" THEN azure_to_gcp_steps ELSE gcp_to_azure_steps

FailoverType(target) == IF target = "gcp" THEN "azure_to_gcp" ELSE "gcp_to_azure"

NumSteps == Len(azure_to_gcp_steps)

\* Positions whose critical flag deployment policy may clear (FailoverStep.critical).
PolicySteps == {5, 7, 8}

\* ------------------------------------------------------- decision maker
\* A dict key is present.
HasKey(d, k) == k \in DOMAIN d

\* The decision a tick starts from: nothing to do.
NoDecision ==
    [ should_failover |-> FALSE, should_rollback |-> FALSE,
      target_environment |-> None, reason |-> << >>,
      confidence_score |-> 0, estimated_rto |-> 0 ]

\* The snapshot used when the health assessment raises: no region_status and
\* no network_latency in the environments' entries.
DefaultHealthStatus ==
    [ azure  |-> [ overall_score |-> 0, sql_mi_available |-> FALSE,
                   aks_available |-> FALSE ],
      gcp    |-> [ overall_score |-> 0, cloud_sql_available |-> FALSE,
                   gke_available |-> FALSE ],
      striim |-> [ cdc_pipeline_active |-> FALSE,
                   replication_lag_seconds |-> 999 ] ]

\* The environment the critical-failure rules look at.
CurrentEnv(state) == IF state = "active_azure" THEN "azure" ELSE "gcp"

\* Mutant: a failover decision names no target.
TargetEnv_Missing(state) == None

\* The target of a failover decision.
TargetEnv(state) == IF state = "active_azure" THEN "gcp" ELSE "azure"

DatabaseKey(env) == IF env = "azure" THEN "sql_mi_available" ELSE "cloud_sql_available"

\* env_health.get(key, True)
DatabaseAvailable(env_health, env) ==
    IF HasKey(env_health, DatabaseKey(env)) THEN env_health[DatabaseKey(env)] ELSE TRUE

\* The list critical_conditions, built in full before any entry is looked at.
CriticalConditions(env_health, env) ==
    << [ condition |-> env_health.overall_score < CriticalScore,
         reason |-> << "azure_service_degradation" >>, confidence |-> ConfScore ],
       [ condition |-> ~DatabaseAvailable(env_health, env),
         reason |-> << "azure_service_degradation" >>, confidence |-> ConfDatabase ],
       [ condition |-> env_health.region_status = "outage",
         reason |-> << "azure_region_outage" >>, confidence |-> ConfRegion ],
       [ condition |-> env_health.network_latency > NetworkLatencyMs,
         reason |-> << "network_connectivity_loss" >>, confidence |-> ConfLatency ] >>

\* What a rule returns: nothing (Python's None), a finding, or an exception.
Nothing == [ found |-> FALSE, raised |-> FALSE, reason |-> << >>, confidence |-> 0 ]
Finding(reason, confidence) ==
    [ found |-> TRUE, raised |-> FALSE, reason |-> reason, confidence |-> confidence ]
Raised == [ found |-> FALSE, raised |-> TRUE, reason |-> << "KeyError" >>, confidence |-> 0 ]

\* Mutant: the last entry whose condition is true decides.
FirstTrue_Last(conds) ==
    IF \E i \in 1..Len(conds) : conds[i].condition
    THEN LET i == CHOOSE j \in 1..Len(conds) :
                      /\ conds[j].condition
                      /\ \A k \in (j+1)..Len(conds) : ~conds[k].condition
         IN  Finding(conds[i].reason, conds[i].confidence)
    ELSE Nothing

\* The first entry of the list whose condition is true, or nothing.
FirstTrue(conds) ==
    IF \E i \in 1..Len(conds) : conds[i].condition
    THEN LET i == CHOOSE j \in 1..Len(conds) :
                      /\ conds[j].condition
                      /\ \A k \in 1..(j-1) : ~conds[k].condition
         IN  Finding(conds[i].reason, conds[i].confidence)
    ELSE Nothing

\* _detect_critical_failures: raises KeyError when an indexed key is absent.
DetectCriticalFailures(health_status, state) ==
    LET env == CurrentEnv(state)
        env_health == health_status[env]
    IN  IF ~ ( /\ HasKey(env_health, "overall_score")
               /\ HasKey(env_health, "region_status")
               /\ HasKey(env_health, "network_latency") )
        THEN Raised
        ELSE FirstTrue(CriticalConditions(env_health, env))

\* Mutant: a lag equal to the threshold counts as degradation.
DetectPerformanceDegradation_AtThreshold(health_status) ==
    IF health_status.striim.replication_lag_seconds >= DataReplicationLagSeconds
    THEN Finding(<< "performance_degradation",
                    health_status.striim.replication_lag_seconds >>, ConfPerformance)
    ELSE Nothing

\* _detect_performance_degradation (its severity is always "critical").
DetectPerformanceDegradation(health_status) ==
    IF health_status.striim.replication_lag_seconds > DataReplicationLagSeconds
    THEN Finding(<< "performance_degradation",
                    health_status.striim.replication_lag_seconds >>, ConfPerformance)
    ELSE Nothing

\* The state test that opens _evaluate_rollback_conditions.
RollbackConsidered(state) == state # "active_azure"

\* _evaluate_rollback_conditions ("and" stops at the first false operand).
EvaluateRollbackConditions(health_status, state) ==
    LET azure_health == health_status.azure
    IN  IF ~RollbackConsidered(state) THEN Nothing
        ELSE IF /\ azure_health.overall_score > RollbackScore
                /\ azure_health.sql_mi_available
                /\ azure_health.aks_available
                /\ HasKey(azure_health, "region_status")
                /\ azure_health.region_status = "healthy"
        THEN Finding(<< "primary_environment_recovered" >>, ConfRollback)
        ELSE Nothing

RECURSIVE GCD(_, _)
GCD(a, b) == IF b = 0 THEN a ELSE GCD(b, a % b)

\* The float total / count, kept exact as a fraction in lowest terms.
Ratio(total, count) ==
    [ num |-> total \div GCD(total, count), den |-> count \div GCD(total, count) ]

\* Mutant: the average is rounded up to whole seconds.
EstimateFailoverTime_RoundsUp(avg_failover_time) ==
    IF avg_failover_time.num > 0
    THEN (avg_failover_time.num + avg_failover_time.den - 1) \div avg_failover_time.den
    ELSE RtoTarget

\* _estimate_failover_time; int() drops the fraction of the average.
EstimateFailoverTime(avg_failover_time) ==
    IF avg_failover_time.num > 0
    THEN avg_failover_time.num \div avg_failover_time.den
    ELSE RtoTarget

\* Mutant: the in-progress guard is dropped.
SkipEvaluation_Never(in_progress) == FALSE

\* The guard that opens _evaluate_failover_decision.
SkipEvaluation(in_progress) == in_progress

\* _evaluate_failover_decision; an exception raised by a rule is caught and the
\* decision built so far (NoDecision) is returned.
EvaluateFailoverDecision(health_status, state, in_progress, avg_failover_time) ==
    IF SkipEvaluation(in_progress) THEN NoDecision
    ELSE
    LET critical_failure == DetectCriticalFailures(health_status, state)
        performance_issues == DetectPerformanceDegradation(health_status)
        rollback_needed == EvaluateRollbackConditions(health_status, state)
    IN  IF critical_failure.raised THEN NoDecision
        ELSE IF critical_failure.found THEN
            [ NoDecision EXCEPT
                !.should_failover = TRUE,
                !.target_environment = TargetEnv(state),
                !.reason = critical_failure.reason,
                !.confidence_score = critical_failure.confidence,
                !.estimated_rto = EstimateFailoverTime(avg_failover_time) ]
        ELSE IF performance_issues.found THEN
            [ NoDecision EXCEPT
                !.should_failover = TRUE,
                !.target_environment = TargetEnv(state),
                !.reason = performance_issues.reason,
                !.confidence_score = performance_issues.confidence,
                !.estimated_rto = EstimateFailoverTime(avg_failover_time) ]
        ELSE IF rollback_needed.found THEN
            [ NoDecision EXCEPT
                !.should_rollback = TRUE,
                !.reason = rollback_needed.reason,
                !.confidence_score = rollback_needed.confidence ]
        ELSE NoDecision

\* ------------------------------------------------------------------ state
VARIABLES
    \* FailoverCoordinator
    current_failover,   \* the run record, or NoRun
    locked,             \* failover_lock is held
    waiters,            \* tasks suspended in failover_lock.acquire(), oldest first
    retry_count,        \* FailoverStep.retry_count of the steps
    noncritical,        \* positions of the steps with critical = False
    roles,              \* where the step handlers have put the database primary and DNS
    \* one frame per task inside a trigger operation
    pc,                 \* "idle", "wait_lock", "attempt", "backoff", "done",
                        \* "exited", "cancelled"
    target_env,         \* the trigger's target environment
    step_index,         \* i of the loop over the steps, from 1
    attempt,            \* attempt of the loop over the retries, from 0
    result,             \* what the trigger returned to the task
    \* DrOrchestratorEngine
    current_state, failover_in_progress,
    old_state,          \* local of _execute_failover
    decision,           \* the decision _execute_failover was called with
    rollback_checkpoints, failover_history, state_metadata,
    snapshot,           \* the health snapshot SpecEval evaluates
    \* DrOrchestratorCloudFunctions and HealthMonitor
    health_results,     \* what asyncio.gather returned, one entry per check
    health_summary,     \* what execute_comprehensive_health_check returned
    current_health,     \* HealthMonitor.current_health["azure"]
    failover_decision,  \* what dr_event_processor got from trigger_failover_decision
    \* SecurityHardenedFailover
    canary,             \* one call of execute_canary_failover and what it has done
    \* history, for stating properties
    run_status,         \* status field of the run record each task created
    executed,           \* steps each task's run started, in order
    failed,             \* those of them that returned a failure
    attempts,           \* number of handler calls of the task's latest step
    last_outcome,       \* what the latest of them did
    delays,             \* backoff sleeps of the task's latest step, in seconds
    step_result         \* what _execute_single_step returned for that step

coordVars == << current_failover, locked, waiters, retry_count, noncritical, roles >>
frameVars == << pc, target_env, step_index, attempt, result >>
engineVars == << current_state, failover_in_progress, old_state, decision,
                 rollback_checkpoints, failover_history, state_metadata, snapshot >>
histVars == << run_status, executed, failed, attempts, last_outcome, delays, step_result >>
healthVars == << health_results, health_summary, current_health, failover_decision,
                 canary >>
vars == << coordVars, frameVars, engineVars, histVars, healthVars >>

\* self.current_failover = None
NoRun == [ id |-> << >> ]
\* a task that holds no result
NoResult == [ pending |-> TRUE ]
\* no step has returned
NoStepResult == [ pending |-> TRUE ]

\* d[k] = v on a dict that may not hold k yet.
With(d, k, v) == [ x \in DOMAIN d \cup {k} |-> IF x = k THEN v ELSE d[x] ]

\* 2 ** n
RECURSIVE Pow2(_)
Pow2(n) == IF n = 0 THEN 1 ELSE 2 * Pow2(n - 1)

\* FailoverStep.critical of the step at position i.
Critical(i) == i \notin noncritical

\* Mutant: the run goes on after a critical step has failed.
AbortsRun_Never(i) == FALSE

\* Whether a failed step ends the run (the test "if step.critical").
AbortsRun(i) == Critical(i)

\* The record a trigger stores in current_failover.
NewRun(target) ==
    [ id |-> << FailoverType(target), "timestamp" >>,
      type |-> FailoverType(target),
      start_time |-> "utcnow",
      steps_completed |-> << >>,
      steps_failed |-> << >>,
      current_step |-> None,
      status |-> "in_progress" ]

\* What str(e) is for the TypeError of subscripting None.
TypeError == << "TypeError" >>

\* The part of an atomic block of a trigger that ends it: the task suspends in
\* a step handler, or the trigger returns.
Suspend(cf, i) == [ kind |-> "suspend", cf |-> cf, i |-> i, res |-> NoResult ]
Return(cf, res) == [ kind |-> "return", cf |-> cf, i |-> 0, res |-> res ]

\* trigger_failover_to_*: from the return of _execute_failover_steps on.
\* current_failover is None when the cleanup has discarded the run meanwhile:
\* the status assignment raises and the except branch returns.
FinalStatus(steps_res) == IF steps_res.success THEN "completed" ELSE "failed"

TriggerReturn(cf, steps_res) ==
    IF cf = NoRun
    THEN Return(NoRun, [ success |-> FALSE, error |-> TypeError ])
    ELSE Return(With([ cf EXCEPT !.status = FinalStatus(steps_res) ],
                     "end_time", "utcnow"),
                steps_res)

\* _execute_failover_steps: the top of iteration i, or the end of the loop.
StartStep(cf, target, i) ==
    IF cf = NoRun
    THEN TriggerReturn(cf, [ success |-> FALSE, error |-> TypeError ])
    ELSE IF i > NumSteps
    THEN TriggerReturn(cf, [ success |-> TRUE,
                             steps_completed |-> Len(cf.steps_completed) ])
    ELSE Suspend([ cf EXCEPT !.current_step = StepsFor(target)[i] ], i)

\* Mutant: the loop skips a step.
NextStep_Skips(i) == i + 2

\* The position of the step run after position i.
NextStep(i) == i + 1

\* _execute_failover_steps: from the return of _execute_single_step on.
AfterStep(cf, target, i, sres) ==
    LET name == StepsFor(target)[i] IN
    IF cf = NoRun
    THEN TriggerReturn(cf, [ success |-> FALSE, error |-> TypeError ])
    ELSE IF sres.success
    THEN StartStep([ cf EXCEPT !.steps_completed = Append(@, name) ], target, NextStep(i))
    ELSE LET marked == [ cf EXCEPT !.steps_failed = Append(@, name) ] IN
         IF AbortsRun(i)
         THEN TriggerReturn(marked,
                  [ success |-> FALSE,
                    error |-> << "Critical step failed", name >>,
                    failed_step |-> name ])
         ELSE StartStep(marked, target, NextStep(i))

\* trigger_failover_to_*: from the acquisition of the lock on.
Rejects(cf) == cf # NoRun

\* Mutant: the trigger writes its record before it looks for an existing one.
EnterTrigger_Overwrites(cf, target) ==
    IF Rejects(cf)
    THEN Return(NewRun(target), [ success |-> FALSE,
                                  error |-> << "Failover already in progress" >>,
                                  current_failover_id |-> cf.id ])
    ELSE StartStep(NewRun(target), target, 1)

EnterTrigger(cf, target) ==
    IF Rejects(cf)
    THEN Return(cf, [ success |-> FALSE,
                      error |-> << "Failover already in progress" >>,
                      current_failover_id |-> cf.id ])
    ELSE StartStep(NewRun(target), target, 1)

\* ------------------------------------------------------------ the engine
\* DrState of the environment a successful failover makes active.
ActiveState(target) == IF target = "gcp" THEN "active_gcp" ELSE "active_azure"

\* The engine's fields and the locals of _execute_failover, as one record.
EngineNow ==
    [ state |-> current_state, flag |-> failover_in_progress, old |-> old_state,
      dec |-> decision, cps |-> rollback_checkpoints,
      hist |-> failover_history, meta |-> state_metadata ]

SetEngine(e) ==
    /\ current_state' = e.state
    /\ failover_in_progress' = e.flag
    /\ old_state' = e.old
    /\ decision' = e.dec
    /\ rollback_checkpoints' = e.cps
    /\ failover_history' = e.hist
    /\ state_metadata' = e.meta
    /\ UNCHANGED << snapshot, healthVars >>

\* Mutant: the list is not trimmed.
LastN_All(seq, n) == seq

\* rollback_checkpoints[-10:]
LastN(seq, n) ==
    IF Len(seq) > n THEN SubSeq(seq, Len(seq) - n + 1, Len(seq)) ELSE seq

\* _create_checkpoint: the checkpoint records current_state as it is at the call.
CreateCheckpoint(cps, id, state) ==
    LastN(Append(cps, [ id |-> id, state |-> state ]), MaxCheckpoints)

\* sum(f["duration_seconds"] for f in history if f["success"])
RECURSIVE TotalTime(_)
TotalTime(hist) ==
    IF hist = << >> THEN 0
    ELSE (IF Head(hist).success THEN Head(hist).duration_seconds ELSE 0)
         + TotalTime(Tail(hist))

\* sum(1 for f in history if f["success"])
RECURSIVE SuccessfulCount(_)
SuccessfulCount(hist) ==
    IF hist = << >> THEN 0
    ELSE (IF Head(hist).success THEN 1 ELSE 0) + SuccessfulCount(Tail(hist))

Max(a, b) == IF a > b THEN a ELSE b

\* _record_failover_metrics; of a history record, the fields the engine reads
\* back (duration_seconds, success) and the target.
RecordFailoverMetrics(e, duration, success) ==
    LET hist == Append(e.hist,
                  [ target |-> e.dec.target_environment,
                    duration_seconds |-> duration, success |-> success ])
    IN  [ e EXCEPT
            !.hist = hist,
            !.meta = IF success
                     THEN [ total_failovers |-> e.meta.total_failovers + 1,
                            avg_failover_time |->
                                Ratio(TotalTime(hist), Max(SuccessfulCount(hist), 1)) ]
                     ELSE e.meta ]

\* The DrState _execute_failover moves to before it calls the trigger.
InProgressState == "failover_in_progress"

\* _execute_failover, up to the call of the trigger.
BeginFailover(e) ==
    [ e EXCEPT
        !.flag = TRUE,
        !.old = e.state,
        !.state = InProgressState,
        !.cps = CreateCheckpoint(e.cps, "pre_failover", InProgressState) ]

\* The DrState _execute_failover sets when the trigger has returned res.
StateAfter(e, res) ==
    IF res.success THEN ActiveState(e.dec.target_environment) ELSE e.old

\* Mutant: the in-progress flag is not reset when _execute_failover ends.
FinishFailover_KeepsFlag(e, res, d) ==
    LET updated == [ e EXCEPT !.state = StateAfter(e, res) ]
    IN  IF res.success
        THEN RecordFailoverMetrics(updated, d, TRUE)
        ELSE RecordFailoverMetrics(updated, 0, FALSE)

\* _execute_failover, from the return of the trigger on; d is the time since
\* its start, in seconds.
FinishFailover(e, res, d) ==
    LET updated == [ e EXCEPT !.state = StateAfter(e, res) ]
        recorded == IF res.success
                    THEN RecordFailoverMetrics(updated, d, TRUE)
                    ELSE RecordFailoverMetrics(updated, 0, FALSE)
    IN  [ recorded EXCEPT !.flag = FALSE ]

\* DrState.ERROR
ErrorState == "error"

\* _execute_failover when its try block raised: the except branch and finally.
FailFailover(e) ==
    [ RecordFailoverMetrics([ e EXCEPT !.state = ErrorState ], 0, FALSE)
        EXCEPT !.flag = FALSE ]

\* str(e) of the exception a call of metrics_collector.record_metric raises.
SinkError == << "record_metric failed" >>

\* What the calls of record_metric in one block do, by call site: TRUE when
\* the call returns, FALSE when it raises.  trigger: in trigger_failover_to_*;
\* failover and error: in _record_failover_metrics, called from the try block
\* and from the except branch of _execute_failover; update: in
\* _update_orchestration_metrics; handler: in _handle_orchestration_error.
SinkReads ==
    [ trigger : BOOLEAN, failover : BOOLEAN, error : BOOLEAN,
      update : BOOLEAN, handler : BOOLEAN ]

\* trigger_failover_to_*: record_metric after the final status is set; when
\* it raises, the except branch marks the run and returns a failure.  out is
\* the end of the block with a sink that records.
RecordRunMetric(out, recorded) ==
    IF /\ out.kind = "return"
       /\ out.cf # NoRun
       /\ ~HasKey(out.res, "current_failover_id")
       /\ ~recorded
    THEN Return(With([ out.cf EXCEPT !.status = "error" ], "error", SinkError),
                [ success |-> FALSE, error |-> SinkError ])
    ELSE out

\* _execute_failover, from the return of the trigger on, with a sink that may
\* raise: the engine's fields it leaves, and whether it raised to the loop.
FinishFailoverSink(e, res, d, sink) ==
    LET updated == [ e EXCEPT !.state = StateAfter(e, res) ]
        recorded == IF res.success
                    THEN RecordFailoverMetrics(updated, d, TRUE)
                    ELSE RecordFailoverMetrics(updated, 0, FALSE)
    IN  IF sink.failover
        THEN [ e |-> [ recorded EXCEPT !.flag = FALSE ], raised |-> FALSE ]
        ELSE [ e |-> FailFailover(recorded), raised |-> ~sink.error ]

\* start_orchestration, the rest of an iteration after the orchestration
\* action (raised: the action raised): the metrics update, the except branch
\* with _handle_orchestration_error, and where the task goes on: with the
\* next iteration ("idle"), or out of the loop when the handler raised.
EndIteration(raised, sink) ==
    IF ~raised /\ sink.update THEN "idle"
    ELSE IF sink.handler THEN "idle"
    ELSE "exited"

\* _cleanup_old_checkpoints: drops the checkpoints older than 24 hours, which
\* are the k oldest ones.
CleanupOldCheckpoints(cps, k) == SubSeq(cps, k + 1, Len(cps))

\* ------------------------------------------------------- health snapshots
\* One environment's entry of the snapshot _assess_overall_health builds.
AzureHealth(score, db, cluster, region, latency) ==
    [ overall_score |-> score, sql_mi_available |-> db, aks_available |-> cluster,
      region_status |-> region, network_latency |-> latency ]

GcpHealth(score, db, cluster, region, latency) ==
    [ overall_score |-> score, cloud_sql_available |-> db, gke_available |-> cluster,
      region_status |-> region, network_latency |-> latency ]

StriimHealth(lag) ==
    [ cdc_pipeline_active |-> TRUE, replication_lag_seconds |-> lag,
      data_consistency_score |-> 100 ]

HealthyAzure == AzureHealth(100, TRUE, TRUE, "healthy", 20)
HealthyGcp == GcpHealth(100, TRUE, TRUE, "healthy", 20)

\* The snapshots the ticks of the orchestration loop see: everything healthy,
\* one environment down, replication lagging, and the default snapshot of a
\* failed assessment.
TickSnapshots ==
    { [ azure |-> HealthyAzure, gcp |-> HealthyGcp, striim |-> StriimHealth(5) ],
      [ azure |-> AzureHealth(30, FALSE, TRUE, "outage", 20), gcp |-> HealthyGcp,
        striim |-> StriimHealth(5) ],
      [ azure |-> HealthyAzure, gcp |-> GcpHealth(30, TRUE, TRUE, "degraded", 20),
        striim |-> StriimHealth(5) ],
      [ azure |-> HealthyAzure, gcp |-> HealthyGcp, striim |-> StriimHealth(31) ],
      DefaultHealthStatus }

\* ------------------------------------------------------------------ steps
\* What one call of a step handler does: it returns success, returns a failure
\* with an error, raises asyncio.TimeoutError, or raises another exception.
Outcomes ==
    { [ kind |-> "ok", error |-> << >> ],
      [ kind |-> "fail", error |-> << "handler error" >> ],
      [ kind |-> "timeout", error |-> << "Step timeout" >> ],
      [ kind |-> "raise", error |-> << "exception" >> ] }

NoOutcome == [ kind |-> "none", error |-> << >> ]

\* Mutant: the last-attempt test is off by one.
LastAttempt_OffByOne(a) == a = retry_count

\* The test "attempt == step.retry_count - 1".
LastAttempt(a) == a = retry_count - 1

\* The sleep after failed attempt a: 2 ** attempt seconds.
BackoffDelay(a) == Pow2(a)

\* The error a failed step returns: that of the attempt that ended it.
StepError(o) == o.error

\* Azure is the primary environment when the process starts.
InitialRoles == [ database |-> "azure", dns |-> "azure" ]

\* What a step handler that returns success has done: _switch_database_primary
\* has promoted the target's replica, _update_dns_routing has pointed DNS to
\* the target.  A handler that fails leaves the roles where they were.
HandlerEffect(r, name, target) ==
    IF name = "switch_database_primary" THEN [ r EXCEPT !.database = target ]
    ELSE IF name = "update_dns_routing" THEN [ r EXCEPT !.dns = target ]
    ELSE r

\* What _execute_single_step returns when the attempt with outcome o ends it.
SingleStepResult(o) ==
    IF o.kind = "ok" THEN [ success |-> TRUE, duration |-> "elapsed" ]
    ELSE IF o.kind = "fail"
    THEN [ success |-> FALSE, error |-> StepError(o), duration |-> "elapsed" ]
    ELSE [ success |-> FALSE, error |-> StepError(o) ]

\* Whether the attempt a, with outcome o, ends the step.
EndsStep(o, a) == o.kind = "ok" \/ LastAttempt(a)

\* --------------------------------------------------------- the coordinator
FinalStatuses == { "completed", "failed", "error", "timeout" }

\* _monitor_active_failovers; elapsed is utcnow() - start_time, in minutes.
MonitorActiveFailovers(cf, elapsed) ==
    IF /\ cf # NoRun
       /\ cf.status = "in_progress"
       /\ elapsed > RunTimeoutMinutes
    THEN [ cf EXCEPT !.status = "timeout" ]
    ELSE cf

\* Mutant: the cleanup keeps every run.
CleanupCompletedFailovers_Keeps(cf) == cf

\* _cleanup_completed_failovers
CleanupCompletedFailovers(cf) ==
    IF cf # NoRun /\ cf.status \in FinalStatuses THEN NoRun ELSE cf

\* Mutant: the trigger does not take the lock.
LockFree_Always == TRUE

\* failover_lock.acquire() returns at once: the lock is free and nobody waits.
LockFree == ~locked /\ waiters = << >>

\* ---------------------------------------------------------------- actions
\* The end of an atomic block of task c's trigger: out says whether the task
\* suspends in a step handler or the trigger returns.  Returning leaves
\* "async with" and so releases the lock; for the orchestration loop the rest
\* of _execute_failover and of the iteration runs in the same block: fin holds
\* the engine's fields as the block leaves them, and to is where the task goes
\* on when the trigger has returned.
ProceedWith(c, t, out, fin, to, entry) ==
    /\ current_failover' = out.cf
    /\ locked' = (out.kind = "suspend")
    /\ pc' = [ pc EXCEPT ![c] = IF out.kind = "suspend" THEN "attempt" ELSE to ]
    /\ target_env' = [ target_env EXCEPT ![c] = t ]
    /\ step_index' = [ step_index EXCEPT ![c] = out.i ]
    /\ attempt' = [ attempt EXCEPT ![c] = 0 ]
    /\ result' = [ result EXCEPT ![c] = out.res ]
    /\ SetEngine(fin)
    /\ executed' = [ executed EXCEPT ![c] =
                       LET base == IF entry THEN << >> ELSE executed[c]
                       IN  IF out.kind = "suspend" THEN Append(base, out.i) ELSE base ]
    /\ failed' = [ failed EXCEPT ![c] =
                     IF entry THEN << >>
                     ELSE IF last_outcome'[c].kind = "ok" THEN @
                     ELSE Append(@, step_index[c]) ]
    /\ run_status' = [ run_status EXCEPT ![c] =
                         IF entry /\ Rejects(current_failover) THEN "none"
                         ELSE IF out.cf = NoRun THEN @
                         ELSE out.cf.status ]
    /\ roles' = IF ~entry /\ last_outcome'[c].kind = "ok"
                THEN HandlerEffect(roles, StepsFor(t)[step_index[c]], t)
                ELSE roles
    /\ UNCHANGED << retry_count, noncritical >>

\* ProceedWith as it goes with a metrics sink that records: fin is what
\* _execute_failover makes of e when the trigger returns to the loop, and the
\* task goes on with the loop ("idle") or with main() ("done").
Proceed(c, t, out, e, d, entry) ==
    ProceedWith(c, t, out,
                IF c = Engine /\ out.kind = "return"
                THEN FinishFailover(e, out.res, d) ELSE e,
                IF c = Engine THEN "idle" ELSE "done",
                entry)

\* Task c enters "async with self.failover_lock" holding the lock.
Enter(c, t, e) ==
    /\ Proceed(c, t, EnterTrigger(current_failover, t), e, 0, TRUE)
    /\ attempts' = [ attempts EXCEPT ![c] = 0 ]
    /\ last_outcome' = [ last_outcome EXCEPT ![c] = NoOutcome ]
    /\ delays' = [ delays EXCEPT ![c] = << >> ]
    /\ step_result' = [ step_result EXCEPT ![c] = NoStepResult ]

\* Task c calls trigger_failover_to_<t>: it takes the lock when it is free,
\* and otherwise suspends in acquire(), behind the tasks already waiting.
Call(c, t, e) ==
    IF LockFree
    THEN Enter(c, t, e) /\ UNCHANGED waiters
    ELSE /\ waiters' = Append(waiters, c)
         /\ pc' = [ pc EXCEPT ![c] = "wait_lock" ]
         /\ target_env' = [ target_env EXCEPT ![c] = t ]
         /\ result' = [ result EXCEPT ![c] = NoResult ]
         /\ SetEngine(e)
         /\ executed' = [ executed EXCEPT ![c] = << >> ]
         /\ failed' = [ failed EXCEPT ![c] = << >> ]
         /\ run_status' = [ run_status EXCEPT ![c] = "none" ]
         /\ attempts' = [ attempts EXCEPT ![c] = 0 ]
         /\ last_outcome' = [ last_outcome EXCEPT ![c] = NoOutcome ]
         /\ delays' = [ delays EXCEPT ![c] = << >> ]
         /\ step_result' = [ step_result EXCEPT ![c] = NoStepResult ]
         /\ UNCHANGED << current_failover, locked, retry_count, noncritical, roles,
                         step_index, attempt >>

\* main(): --manual-failover calls a trigger operation directly (anew, once
\* the previous call has returned).
ManualTrigger(c, t) ==
    /\ c \in Manual
    /\ pc[c] \in { "idle", "done" }
    /\ Call(c, t, EngineNow)

\* The lock is released and the oldest waiter resumes holding it.
LockGranted(c) ==
    /\ pc[c] = "wait_lock"
    /\ ~locked
    /\ waiters # << >>
    /\ Head(waiters) = c
    /\ waiters' = Tail(waiters)
    /\ Enter(c, target_env[c], EngineNow)

\* The step handler task c awaits returns or raises (outcome o):
\* _execute_single_step ends the step or sleeps before the next attempt.
\* d is what the orchestration loop reads as the failover's duration if the
\* trigger returns to it in this block.
AttemptReturns(c, o, d) ==
    /\ pc[c] = "attempt"
    /\ LET a == attempt[c]
           slept == IF a = 0 THEN << >> ELSE delays[c]
       IN  /\ attempts' = [ attempts EXCEPT ![c] = IF a = 0 THEN 1 ELSE @ + 1 ]
           /\ last_outcome' = [ last_outcome EXCEPT ![c] = o ]
           /\ IF EndsStep(o, a)
              THEN /\ Proceed(c, target_env[c],
                              AfterStep(current_failover, target_env[c],
                                        step_index[c], SingleStepResult(o)),
                              EngineNow, d, FALSE)
                   /\ delays' = [ delays EXCEPT ![c] = slept ]
                   /\ step_result' = [ step_result EXCEPT ![c] = SingleStepResult(o) ]
                   /\ UNCHANGED waiters
              ELSE /\ pc' = [ pc EXCEPT ![c] = "backoff" ]
                   /\ delays' = [ delays EXCEPT ![c] = Append(slept, BackoffDelay(a)) ]
                   /\ step_result' = [ step_result EXCEPT ![c] = NoStepResult ]
                   /\ UNCHANGED << coordVars, target_env, step_index, attempt, result,
                                   engineVars, healthVars, run_status, executed, failed >>

\* The backoff sleep of task c ends: the next attempt calls the handler.
BackoffEnds(c) ==
    /\ pc[c] = "backoff"
    /\ pc' = [ pc EXCEPT ![c] = "attempt" ]
    /\ attempt' = [ attempt EXCEPT ![c] = @ + 1 ]
    /\ UNCHANGED << coordVars, target_env, step_index, result, engineVars, histVars,
                    healthVars >>

\* One iteration of start_coordinator: the watchdog, then the cleanup (no
\* suspension point between them); elapsed is the age the watchdog reads.
CoordinatorTick(elapsed) ==
    LET monitored == MonitorActiveFailovers(current_failover, elapsed) IN
    /\ current_failover' = CleanupCompletedFailovers(monitored)
    /\ run_status' = [ c \in Callers |->
                         IF /\ monitored # current_failover
                            /\ pc[c] \in { "attempt", "backoff" }
                         THEN "timeout" ELSE run_status[c] ]
    /\ UNCHANGED << locked, waiters, retry_count, noncritical, roles, frameVars, engineVars,
                    healthVars, executed, failed, attempts, last_outcome, delays,
                    step_result >>

\* One iteration of start_orchestration on snapshot h (DefaultHealthStatus when
\* the assessment raised); k checkpoints are older than 24 hours.
EngineTick(h, k) ==
    /\ pc[Engine] = "idle"
    /\ k \in 0..Len(rollback_checkpoints)
    /\ LET dec == EvaluateFailoverDecision(h, current_state, failover_in_progress,
                                           state_metadata.avg_failover_time)
           e == [ EngineNow EXCEPT !.dec = dec ]
       IN  IF dec.should_failover
           THEN /\ k = 0
                /\ Len(failover_history) < MaxHistory
                /\ Call(Engine, dec.target_environment, BeginFailover(e))
           ELSE /\ SetEngine(IF dec.should_rollback THEN EngineNow
                             ELSE [ EngineNow EXCEPT
                                      !.cps = CleanupOldCheckpoints(@, k) ])
                /\ dec.should_rollback => k = 0
                /\ UNCHANGED << coordVars, frameVars, histVars >>

\* _evaluate_failover_decision applied to the snapshot, in the state the
\* engine is in.
Evaluate ==
    /\ pc[Engine] = "idle"
    /\ decision' = EvaluateFailoverDecision(snapshot, current_state, failover_in_progress,
                                            state_metadata.avg_failover_time)
    /\ pc' = [ pc EXCEPT ![Engine] = "decided" ]
    /\ UNCHANGED << coordVars, target_env, step_index, attempt, result, histVars,
                    current_state, failover_in_progress, old_state,
                    rollback_checkpoints, failover_history, state_metadata, snapshot,
                    healthVars >>

\* ------------------------------------------------------------------ floats
\* Python floats are IEEE-754 binary64 numbers.  A non-negative float is the
\* record [hi, lo, exp]: its 53-bit significand is hi * Limb + lo and its value
\* is significand * 2^(exp - 52); zero has hi = lo = 0.  An intermediate result
\* carries two more low bits and a sticky flag for what lies below them, and is
\* rounded to nearest, ties to even.
Limb == 2^28

Float(hi, lo, exp) == [hi |-> hi, lo |-> lo, exp |-> exp]

FZero == Float(0, 0, 0)

FOne == Float(2^24, 0, 0)

IsZero(x) == x.hi = 0 /\ x.lo = 0

WAdd(a, b) ==
    LET s == a.lo + b.lo
    IN  [hi |-> a.hi + b.hi + s \div Limb, lo |-> s % Limb]

WSub(a, b) ==
    LET borrow == IF a.lo < b.lo THEN 1 ELSE 0
    IN  [hi |-> a.hi - b.hi - borrow, lo |-> a.lo + borrow * Limb - b.lo]

WLess(a, b) == a.hi < b.hi \/ (a.hi = b.hi /\ a.lo < b.lo)

Ext(w, exp, sticky) == [hi |-> w.hi, lo |-> w.lo, exp |-> exp, sticky |-> sticky]

Widen(x) == Ext([hi |-> 4 * x.hi + (4 * x.lo) \div Limb, lo |-> (4 * x.lo) % Limb], x.exp, FALSE)

Shr(x) ==
    Ext([hi |-> x.hi \div 2, lo |-> (x.hi % 2) * (Limb \div 2) + x.lo \div 2],
        x.exp + 1, x.sticky \/ x.lo % 2 = 1)

RECURSIVE ShrBy(_, _)
ShrBy(x, k) == IF k = 0 THEN x ELSE ShrBy(Shr(x), k - 1)

RECURSIVE Normalize(_)
Normalize(x) ==
    IF IsZero(x) THEN x
    ELSE IF x.hi >= 2^27 THEN Normalize(Shr(x))
    ELSE IF x.hi < 2^26 THEN Normalize(Ext(WAdd(x, x), x.exp - 1, x.sticky))
    ELSE x

Round(x) ==
    LET keep == [hi |-> x.hi \div 4, lo |-> (x.hi % 4) * (Limb \div 4) + x.lo \div 4]
        low == x.lo % 4
        up == low = 3 \/ (low = 2 /\ (x.sticky \/ keep.lo % 2 = 1))
        m == IF up THEN WAdd(keep, [hi |-> 0, lo |-> 1]) ELSE keep
    IN  IF IsZero(m) THEN FZero
        ELSE IF m.hi = 2^25 THEN Float(2^24, 0, x.exp + 1)
        ELSE Float(m.hi, m.lo, x.exp)

FLess(a, b) ==
    /\ ~IsZero(b)
    /\ \/ IsZero(a)
       \/ a.exp < b.exp
       \/ a.exp = b.exp /\ WLess(a, b)

FAdd(a, b) ==
    IF IsZero(a) THEN b
    ELSE IF IsZero(b) THEN a
    ELSE LET big == IF a.exp >= b.exp THEN a ELSE b
             small == IF a.exp >= b.exp THEN b ELSE a
             y == ShrBy(Widen(small), big.exp - small.exp)
         IN  Round(Normalize(Ext(WAdd(Widen(big), y), big.exp, y.sticky)))

\* a * b for a factor a that is zero or a power of two: the product is exact.
FMul(a, b) ==
    IF IsZero(a) \/ IsZero(b) THEN FZero ELSE Float(b.hi, b.lo, a.exp + b.exp)

\* n * x for a small int n: Python converts n to a float, and the product of
\* the two is rounded once.
FMulInt(n, x) ==
    IF n = 0 \/ IsZero(x) THEN FZero
    ELSE LET w == Widen(x)
         IN  Round(Normalize(Ext([hi |-> n * w.hi + (n * w.lo) \div Limb,
                                  lo |-> (n * w.lo) % Limb], x.exp, FALSE)))

\* One bit of the long division of two significands.
DivStep(s, d) ==
    IF WLess(s.r, d)
    THEN [q |-> WAdd(s.q, s.q), r |-> WAdd(s.r, s.r)]
    ELSE [q |-> WAdd(WAdd(s.q, s.q), [hi |-> 0, lo |-> 1]),
          r |-> WAdd(WSub(s.r, d), WSub(s.r, d))]

Div7(s, d) == DivStep(DivStep(DivStep(DivStep(DivStep(DivStep(DivStep(s, d), d), d), d), d), d), d)

\* The 56 quotient bits are produced seven at a time, each group evaluated
\* before the next one starts.
FDiv(a, b) ==
    IF IsZero(a) THEN FZero
    ELSE LET s0 == [q |-> [hi |-> 0, lo |-> 0], r |-> [hi |-> a.hi, lo |-> a.lo]]
             s1 == Div7(s0, b)
             s2 == Div7(s1, b)
             s3 == Div7(s2, b)
             s4 == Div7(s3, b)
             s5 == Div7(s4, b)
             s6 == Div7(s5, b)
             s7 == Div7(s6, b)
             s8 == Div7(s7, b)
         IN  IF \A i \in 1..7 : << s1, s2, s3, s4, s5, s6, s7 >>[i].q.hi >= 0
             THEN Round(Normalize(Ext(s8.q, a.exp - b.exp - 1, ~IsZero(s8.r))))
             ELSE FZero

\* a - b for a >= b.
FSub(a, b) ==
    IF IsZero(b) THEN a
    ELSE LET y == ShrBy(Widen(b), a.exp - b.exp)
             d == WSub(Widen(a), y)
         IN  Round(Normalize(Ext(IF y.sticky THEN WSub(d, [hi |-> 0, lo |-> 1]) ELSE d,
                                 a.exp, y.sticky)))

\* The int n as a float.
FInt(n) == FMulInt(n, FOne)

\* 0.3, 0.1, 0.8 and 0.5 as Python reads the literals.
CriticalWeight == Float(20132659, 53687091, -2)
OtherWeight == Float(26843545, 161061274, -4)
HealthyThreshold == Float(26843545, 161061274, -1)
DegradedThreshold == Float(2^24, 0, -1)

\* ------------------------------------------------------ canary failover
\* Safety limit of _scale_nodepool.
NodeLimit == 10

\* CanaryConfig's defaults.
DefaultCanaryReplicas == 1
DefaultFullScaleReplicas == 3

\* The stages of execute_canary_failover, in the order of the code.
CanaryStages == << "authentication", "nodepool_scale_canary", "nodes_ready",
                   "canary_deploy", "canary_validation", "full_scale", "dns_update" >>

NoCanaryResult == [ success |-> None ]

\* Before SecurityHardenedFailover is constructed.  node_count is the size
\* asked of the node pool, replicas that of the dr-app-canary deployment (0:
\* there is none), dns where the A record points; stages are the keys of the
\* local 'stages', raised the stage whose exception reached the handler,
\* rollback the operations _rollback_deployment started.
NoCanary ==
    [ pc |-> "new",
      min_canary_replicas |-> DefaultCanaryReplicas,
      full_scale_replicas |-> DefaultFullScaleReplicas,
      dns_configured |-> FALSE,
      node_count |-> 0,
      replicas |-> 0,
      canary_healthy |-> FALSE,
      dns |-> "azure",
      stages |-> << >>,
      raised |-> None,
      rollback |-> << >>,
      result |-> NoCanaryResult ]

\* A call that returned leaves the state c; one that raised leaves it too.
CallReturned(c) == [ c |-> c, raised |-> FALSE ]
CallRaised(c) == [ c |-> c, raised |-> TRUE ]

\* What GKE does with a resize: it completes, it refuses the request, or the
\* operation is accepted and fails or is not done within the timeout.
ScaleOutcomes == { "ok", "refused", "timeout" }

\* _scale_nodepool.
ScaleNodepool(c, desired_nodes, outcome) ==
    IF desired_nodes < 0 \/ desired_nodes > NodeLimit
    THEN CallRaised(c)
    ELSE CASE outcome = "ok" -> CallReturned([ c EXCEPT !.node_count = desired_nodes ])
           [] outcome = "refused" -> CallRaised(c)
           [] outcome = "timeout" -> CallRaised([ c EXCEPT !.node_count = desired_nodes ])

\* _wait_for_nodes_ready: the nodes are ready in time or TimeoutError.
WaitForNodesReady(c, ready) == IF ready THEN CallReturned(c) ELSE CallRaised(c)

DeployOutcomes == { "ok", "namespace_failed", "apply_failed" }

\* _deploy_canary_application.
DeployCanaryApplication(c, outcome) ==
    IF outcome = "ok"
    THEN CallReturned([ c EXCEPT !.replicas = c.min_canary_replicas ])
    ELSE CallRaised(c)

FullDeploymentOutcomes == { "ok", "patch_failed", "rollout_timeout" }

\* _scale_to_full_deployment.
ScaleToFullDeployment(c, outcome) ==
    CASE outcome = "ok" -> CallReturned([ c EXCEPT !.replicas = c.full_scale_replicas ])
      [] outcome = "patch_failed" -> CallRaised(c)
      [] outcome = "rollout_timeout" ->
            CallRaised([ c EXCEPT !.replicas = c.full_scale_replicas ])

\* What Cloud DNS does: the change is applied, the address or the zone cannot
\* be read, or the change is created and polling it raises.
DnsOutcomes == { "ok", "lookup_failed", "change_unconfirmed" }

\* _update_dns_with_validation; _validate_dns_propagation only warns.
UpdateDnsWithValidation(c, outcome) ==
    IF ~c.dns_configured
    THEN CallReturned(c)
    ELSE CASE outcome = "ok" -> CallReturned([ c EXCEPT !.dns = "gcp" ])
           [] outcome = "lookup_failed" -> CallRaised(c)
           [] outcome = "change_unconfirmed" -> CallRaised([ c EXCEPT !.dns = "gcp" ])

\* _rollback_deployment: kubectl delete, then the node pool to 0; whatever
\* raises is logged.
RollbackDeployment(c, deleted, scale) ==
    IF deleted
    THEN LET d == [ c EXCEPT !.replicas = 0,
                             !.rollback = << "delete_deployment", "scale_nodepool" >> ]
         IN  ScaleNodepool(d, 0, scale).c
    ELSE [ c EXCEPT !.rollback = << "delete_deployment" >> ]

\* Mutant: a canary that failed validation is taken for a healthy one.
CanaryValidationRaises_Never(healthy) == FALSE

\* Stage 5 of execute_canary_failover raises when the validation returns False.
CanaryValidationRaises(healthy) == ~healthy

\* How a stage of the try block ends: its duration is recorded and the next
\* stage follows, or the exception reaches the handler.
StageEnds(stage, next, r) ==
    canary' = IF r.raised
              THEN [ r.c EXCEPT !.pc = "failed", !.raised = stage ]
              ELSE [ r.c EXCEPT !.pc = next, !.stages = Append(@, stage) ]

CanaryUnchanged ==
    UNCHANGED << coordVars, frameVars, engineVars, histVars, health_results,
                 health_summary, current_health, failover_decision >>

\* SecurityHardenedFailover.__init__: _load_secure_config reads the environment.
LoadSecureConfig(full, dns) ==
    /\ canary.pc = "new"
    /\ canary' = [ canary EXCEPT !.pc = "authentication",
                                 !.full_scale_replicas = full,
                                 !.dns_configured = dns ]
    /\ CanaryUnchanged

\* Stage 1.
Authentication(ok) ==
    /\ canary.pc = "authentication"
    /\ StageEnds("authentication", "nodepool_scale_canary",
                 IF ok THEN CallReturned(canary) ELSE CallRaised(canary))
    /\ CanaryUnchanged

\* Stage 2.
NodepoolScaleCanary(scale) ==
    /\ canary.pc = "nodepool_scale_canary"
    /\ StageEnds("nodepool_scale_canary", "nodes_ready",
                 ScaleNodepool(canary, canary.min_canary_replicas, scale))
    /\ CanaryUnchanged

\* Stage 3.
NodesReady(ready) ==
    /\ canary.pc = "nodes_ready"
    /\ StageEnds("nodes_ready", "canary_deploy", WaitForNodesReady(canary, ready))
    /\ CanaryUnchanged

\* Stage 4.
CanaryDeploy(outcome) ==
    /\ canary.pc = "canary_deploy"
    /\ StageEnds("canary_deploy", "canary_validation",
                 DeployCanaryApplication(canary, outcome))
    /\ CanaryUnchanged

\* Stage 5: healthy is what _validate_canary_health returns.
CanaryValidation(healthy) ==
    /\ canary.pc = "canary_validation"
    /\ LET c == [ canary EXCEPT !.canary_healthy = healthy ]
       IN  StageEnds("canary_validation", "full_scale",
                     IF CanaryValidationRaises(healthy) THEN CallRaised(c) ELSE CallReturned(c))
    /\ CanaryUnchanged

\* Stage 6: the node pool, the nodes, then the deployment.
FullScale(scale, ready, outcome) ==
    /\ canary.pc = "full_scale"
    /\ LET scaled == ScaleNodepool(canary, canary.full_scale_replicas, scale)
           waited == WaitForNodesReady(scaled.c, ready)
       IN  StageEnds("full_scale", "dns_update",
                     IF scaled.raised THEN scaled
                     ELSE IF waited.raised THEN waited
                     ELSE ScaleToFullDeployment(waited.c, outcome))
    /\ CanaryUnchanged

\* Stage 7, and the result of a call no stage of which raised.
DnsUpdate(outcome) ==
    /\ canary.pc = "dns_update"
    /\ LET r == UpdateDnsWithValidation(canary, outcome)
       IN  canary' = IF r.raised
                     THEN [ r.c EXCEPT !.pc = "failed", !.raised = "dns_update" ]
                     ELSE LET stages == Append(r.c.stages, "dns_update")
                          IN  [ r.c EXCEPT !.pc = "done",
                                           !.stages = stages,
                                           !.result = [ success |-> TRUE,
                                                        stages |-> stages ] ]
    /\ CanaryUnchanged

\* The except clause of execute_canary_failover.
CanaryFailed(deleted, scale) ==
    /\ canary.pc = "failed"
    /\ canary' = [ RollbackDeployment(canary, deleted, scale) EXCEPT
                     !.pc = "done",
                     !.result = [ success |-> FALSE, stages |-> canary.stages ] ]
    /\ CanaryUnchanged

\* ---------------------------------------------------- cloud health check
\* The checks execute_comprehensive_health_check gathers, in task order.
Services == << "azure_sql_mi", "gcp_cloud_sql", "striim_cdc", "azure_aks", "gcp_gke" >>

critical_services == << "azure_sql_mi", "gcp_cloud_sql", "striim_cdc" >>

\* What a check returns: the service answered and is up, it answered and is
\* not, or the probe raised and the check's own except clause answered.
CheckUp(service) ==
    [ service |-> service, status |-> "Running", health_score |-> FOne,
      connectivity |-> TRUE, error |-> None ]

CheckDown(service) ==
    [ service |-> service, status |-> "Stopped", health_score |-> FZero,
      connectivity |-> TRUE, error |-> None ]

CheckError(service) ==
    [ service |-> service, status |-> "Error", health_score |-> FZero,
      connectivity |-> FALSE, error |-> "probe failed" ]

\* Every check catches Exception itself, so gather's results are dicts.
CheckResults(service) == { CheckUp(service), CheckDown(service), CheckError(service) }

IsException(res) == "exception" \in DOMAIN res

\* Mutant: every service weighs the same.
Weight_Flat(service_name) == OtherWeight

Weight(service_name) ==
    IF \E i \in DOMAIN critical_services : critical_services[i] = service_name
    THEN CriticalWeight ELSE OtherWeight

\* The loop over health_results, from entry i on: the weighted scores of the
\* results that are no exception, added in list order.
RECURSIVE WeightedScore(_, _, _)
WeightedScore(results, i, acc) ==
    IF i > Len(results) THEN acc
    ELSE IF IsException(results[i]) THEN WeightedScore(results, i + 1, acc)
    ELSE WeightedScore(results, i + 1,
                       FAdd(acc, FMul(results[i].health_score,
                                      Weight(results[i].service))))

TotalWeight(results) ==
    FAdd(FMulInt(Len(critical_services), CriticalWeight),
         FMulInt(Len(results) - Len(critical_services), OtherWeight))

\* Mutant: a check that answered with an error gets no entry.
ServicesHealth_DropsErrors(results) ==
    LET kept == { i \in DOMAIN results : ~IsException(results[i])
                                         /\ results[i].error = None }
    IN  [ name \in { results[i].service : i \in kept } |->
            results[CHOOSE i \in kept : results[i].service = name] ]

ServicesHealth(results) ==
    LET kept == { i \in DOMAIN results : ~IsException(results[i]) }
    IN  [ name \in { results[i].service : i \in kept } |->
            results[CHOOSE i \in kept : results[i].service = name
                                        /\ \A j \in kept : results[j].service = name => j <= i] ]

HealthStatusOf(score) ==
    IF ~FLess(score, HealthyThreshold) THEN "HEALTHY"
    ELSE IF ~FLess(score, DegradedThreshold) THEN "DEGRADED"
    ELSE "UNHEALTHY"

\* _identify_critical_issues: the services of the report scoring below 0.5.
IdentifyCriticalIssues(services_health) ==
    { [ service |-> name,
        severity |-> IF IsZero(services_health[name].health_score)
                     THEN "CRITICAL" ELSE "WARNING",
        status |-> services_health[name].status ] :
      name \in { n \in DOMAIN services_health :
                   FLess(services_health[n].health_score, DegradedThreshold) } }

NoSummary == [ health_status |-> None ]

ExecuteComprehensiveHealthCheck(results) ==
    LET total_weight == TotalWeight(results)
        overall == IF FLess(FZero, total_weight)
                   THEN FDiv(WeightedScore(results, 1, FZero), total_weight)
                   ELSE FZero
    IN  [ overall_health_score |-> overall,
          health_status |-> HealthStatusOf(overall),
          services |-> ServicesHealth(results),
          critical_issues |-> IdentifyCriticalIssues(ServicesHealth(results)) ]

\* 0.3 as Python reads the literal.
SevereThreshold == Float(20132659, 53687091, -2)

\* health_data.get('services', {}).get(name, {}).get('health_score', 1.0)
HealthScoreOf(health_data, name) ==
    IF name \in DOMAIN health_data.services
    THEN health_data.services[name].health_score ELSE FOne

\* The enterprise failover criteria of trigger_failover_decision.
FailoverRequired(health_data) ==
    /\ FLess(HealthScoreOf(health_data, "azure_sql_mi"), SevereThreshold)
    /\ ~FLess(HealthScoreOf(health_data, "gcp_cloud_sql"), HealthyThreshold)
    /\ ~FLess(HealthScoreOf(health_data, "striim_cdc"), DegradedThreshold)

\* trigger_failover_decision was not called.
NotAsked == [ decision |-> None ]

\* trigger_failover_decision: FAILOVER_INITIATED tells that it has called
\* _execute_automated_failover.
TriggerFailoverDecision(health_data) ==
    [ decision |-> IF FailoverRequired(health_data)
                   THEN "FAILOVER_INITIATED" ELSE "NO_FAILOVER_REQUIRED" ]

\* The test of dr_event_processor that guards the decision.
DecisionWanted(health_result) == health_result.health_status = "UNHEALTHY"

\* ------------------------------------------------------- the health monitor
\* What _check_azure_sql_mi, _check_azure_aks and _check_azure_network return:
\* the scored metrics, or the answer of their except clause.
SubCheckOk == [ available |-> TRUE, score |-> FOne, error |-> None ]

SubCheckFailed == [ available |-> FALSE, score |-> FZero, error |-> "probe failed" ]

SubCheckResults == { SubCheckOk, SubCheckFailed }

\* current_health["azure"] before the first check.
NoHealth == [ status |-> "unknown" ]

\* The except clause of _check_azure_health.
AzureHealthUnknown ==
    [ status |-> "unknown", overall_score |-> FZero, services |-> << >>,
      sql_mi_available |-> FALSE, aks_available |-> FALSE,
      region_status |-> "unknown", error |-> "raised" ]

\* _check_azure_health on what the three checks returned; raised tells that
\* one of its calls raised.
CheckAzureHealth(sql_mi, aks, network, raised) ==
    IF raised THEN AzureHealthUnknown
    ELSE LET service_scores == << sql_mi.score, aks.score, network.score >>
             overall_score == FDiv(FAdd(FAdd(FAdd(FZero, service_scores[1]),
                                             service_scores[2]), service_scores[3]),
                                   FInt(Len(service_scores)))
         IN  [ status |-> IF FLess(overall_score, DegradedThreshold) THEN "critical"
                          ELSE IF FLess(overall_score, HealthyThreshold) THEN "warning"
                          ELSE "healthy",
               overall_score |-> overall_score,
               services |-> [ sql_mi |-> sql_mi, aks |-> aks, network |-> network ],
               sql_mi_available |-> sql_mi.available,
               aks_available |-> aks.available,
               region_status |-> "healthy",
               error |-> None ]

\* No health check has run yet.
NoHealthCheck ==
    /\ health_results = << >>
    /\ health_summary = NoSummary
    /\ current_health = NoHealth
    /\ failover_decision = NotAsked
    /\ canary = NoCanary

\* ---------------------------------------------------------- specifications
\* Ages the watchdog may read, in minutes: the timeout itself and beyond it.
ElapsedReads == { RunTimeoutMinutes, RunTimeoutMinutes + 1 }

\* Durations of a failover the orchestration loop may read, in seconds.
DurationReads == { 240, 361 }

InitCoordinator ==
    /\ current_failover = NoRun
    /\ locked = FALSE
    /\ waiters = << >>
    /\ pc = [ c \in Callers |-> "idle" ]
    /\ target_env = [ c \in Callers |-> "gcp" ]
    /\ step_index = [ c \in Callers |-> 0 ]
    /\ attempt = [ c \in Callers |-> 0 ]
    /\ result = [ c \in Callers |-> NoResult ]
    /\ run_status = [ c \in Callers |-> "none" ]
    /\ executed = [ c \in Callers |-> << >> ]
    /\ failed = [ c \in Callers |-> << >> ]
    /\ attempts = [ c \in Callers |-> 0 ]
    /\ last_outcome = [ c \in Callers |-> NoOutcome ]
    /\ delays = [ c \in Callers |-> << >> ]
    /\ step_result = [ c \in Callers |-> NoStepResult ]

InitialMetadata == [ total_failovers |-> 0, avg_failover_time |-> Ratio(0, 1) ]

\* DrOrchestratorEngine.__init__, apart from current_state and the flag.
InitEngineFields ==
    /\ old_state = "active_azure"
    /\ decision = NoDecision
    /\ rollback_checkpoints = << [ id |-> "initial_state", state |-> "active_azure" ] >>
    /\ failover_history = << >>
    /\ state_metadata = InitialMetadata
    /\ snapshot = DefaultHealthStatus
    /\ NoHealthCheck

InitEngine ==
    /\ current_state = "active_azure"
    /\ failover_in_progress = FALSE
    /\ InitEngineFields

\* The shipped configuration: every step critical, three attempts per step.
Init ==
    /\ InitCoordinator
    /\ InitEngine
    /\ retry_count = DefaultRetryCount
    /\ noncritical = {}
    /\ roles = InitialRoles

\* What the step handlers do in Spec: they succeed or return a failure.
SpecOutcomes == { o \in Outcomes : o.kind \in { "ok", "fail" } }

\* The orchestration loop, the coordinator's background task and a manual
\* trigger in one event loop.  No checkpoint grows older than 24 hours.
Next ==
    \/ \E c \in Manual, t \in { "gcp", "azure" } : ManualTrigger(c, t)
    \/ \E c \in Callers : LockGranted(c)
    \/ \E c \in Callers, o \in SpecOutcomes, d \in DurationReads : AttemptReturns(c, o, d)
    \/ \E c \in Callers : BackoffEnds(c)
    \/ \E elapsed \in ElapsedReads : CoordinatorTick(elapsed)
    \/ \E h \in TickSnapshots : EngineTick(h, 0)

Spec == Init /\ [][Next]_vars

\* ------------------------------------------------------------- SpecSteps
\* The orchestration loop and the coordinator's background task, for every
\* retry_count up to MaxRetry and every choice of non-critical steps among
\* PolicySteps; a step handler may also raise.
InitSteps ==
    /\ InitCoordinator
    /\ InitEngine
    /\ retry_count \in 1..MaxRetry
    /\ noncritical \in SUBSET PolicySteps
    /\ roles = InitialRoles

NextSteps ==
    \/ \E o \in Outcomes, d \in DurationReads : AttemptReturns(Engine, o, d)
    \/ BackoffEnds(Engine)
    \/ \E elapsed \in ElapsedReads : CoordinatorTick(elapsed)
    \/ \E h \in TickSnapshots : EngineTick(h, 0)

SpecSteps == InitSteps /\ [][NextSteps]_vars

\* -------------------------------------------------------------- SpecLive
\* What the event loop guarantees: a task that is ready runs, so the
\* coordinator's tick, the end of a backoff sleep and the orchestration loop's
\* iteration are not postponed for ever.  Nothing obliges a step handler to
\* return: _execute_single_step awaits it without a deadline.
Fairness ==
    /\ WF_vars(\E elapsed \in ElapsedReads : CoordinatorTick(elapsed))
    /\ WF_vars(BackoffEnds(Engine))
    /\ WF_vars(\E h \in TickSnapshots : EngineTick(h, 0))

\* The orchestration loop and the coordinator's background task in the
\* shipped configuration, under Fairness.
SpecLive == Init /\ [][NextSteps]_vars /\ Fairness

\* -------------------------------------------------------------- SpecEval
\* The decision maker as a function of the snapshot and of the engine's state.
\* DrState and the in-progress flag as _execute_failover leaves them at its
\* suspension points and at its end: active, in progress, or ERROR after an
\* exception.
EvalStates ==
    { << "active_azure", FALSE >>, << "active_gcp", FALSE >>,
      << "failover_in_progress", TRUE >>, << "error", FALSE >> }

\* Snapshots on both sides of every threshold the rules compare with, and the
\* default snapshot.
EvalSnapshots ==
    { [ azure |-> AzureHealth(s, db, aks, r, l), gcp |-> GcpHealth(gs, gdb, TRUE, gr, gl),
        striim |-> StriimHealth(lag) ] :
        s \in { CriticalScore - 1, CriticalScore, RollbackScore, RollbackScore + 1 },
        db \in BOOLEAN, aks \in BOOLEAN,
        r \in { "healthy", "degraded", "outage" },
        l \in { NetworkLatencyMs, NetworkLatencyMs + 1 },
        gs \in { CriticalScore - 1, RollbackScore + 1 }, gdb \in BOOLEAN,
        gr \in { "healthy", "outage" },
        gl \in { NetworkLatencyMs, NetworkLatencyMs + 1 },
        lag \in { DataReplicationLagSeconds, DataReplicationLagSeconds + 1 } }
    \cup { DefaultHealthStatus }

InitEval ==
    /\ InitCoordinator
    /\ retry_count = DefaultRetryCount
    /\ noncritical = {}
    /\ roles = InitialRoles
    /\ \E st \in EvalStates : current_state = st[1] /\ failover_in_progress = st[2]
    /\ old_state = "active_azure"
    /\ decision = NoDecision
    /\ rollback_checkpoints = << [ id |-> "initial_state", state |-> "active_azure" ] >>
    /\ failover_history = << >>
    /\ state_metadata = InitialMetadata
    /\ snapshot \in EvalSnapshots
    /\ NoHealthCheck

NextEval == Evaluate

SpecEval == InitEval /\ [][NextEval]_vars

\* -------------------------------------------------------------- SpecSink
\* The step handler the orchestration loop's run awaits returns or raises,
\* with a metrics sink whose record_metric may raise (sink).
AttemptReturnsSink(o, d, sink) ==
    /\ pc[Engine] = "attempt"
    /\ EndsStep(o, attempt[Engine])
    /\ LET a == attempt[Engine]
           out == RecordRunMetric(AfterStep(current_failover, target_env[Engine],
                                            step_index[Engine], SingleStepResult(o)),
                                  sink.trigger)
           fin == FinishFailoverSink(EngineNow, out.res, d, sink)
       IN  /\ attempts' = [ attempts EXCEPT ![Engine] = IF a = 0 THEN 1 ELSE @ + 1 ]
           /\ last_outcome' = [ last_outcome EXCEPT ![Engine] = o ]
           /\ IF out.kind = "return"
              THEN ProceedWith(Engine, target_env[Engine], out, fin.e,
                               EndIteration(fin.raised, sink), FALSE)
              ELSE ProceedWith(Engine, target_env[Engine], out, EngineNow, "idle", FALSE)
           /\ delays' = [ delays EXCEPT ![Engine] = IF a = 0 THEN << >> ELSE @ ]
           /\ step_result' = [ step_result EXCEPT ![Engine] = SingleStepResult(o) ]
           /\ UNCHANGED waiters

\* An iteration of start_orchestration that decides no failover on snapshot
\* h, with a sink that may raise.
IdleTickSink(h, sink) ==
    /\ pc[Engine] = "idle"
    /\ ~EvaluateFailoverDecision(h, current_state, failover_in_progress,
                                 state_metadata.avg_failover_time).should_failover
    /\ pc' = [ pc EXCEPT ![Engine] = EndIteration(FALSE, sink) ]
    /\ UNCHANGED << coordVars, target_env, step_index, attempt, result,
                    engineVars, histVars, healthVars >>

\* The orchestration loop and the coordinator's background task with a
\* metrics sink that records or raises, call by call.
NextSink ==
    \/ \E h \in TickSnapshots : EngineTick(h, 0)
    \/ \E h \in TickSnapshots, sink \in SinkReads : IdleTickSink(h, sink)
    \/ \E o \in SpecOutcomes, d \in DurationReads : AttemptReturns(Engine, o, d)
    \/ \E o \in SpecOutcomes, d \in DurationReads, sink \in SinkReads :
          AttemptReturnsSink(o, d, sink)
    \/ BackoffEnds(Engine)
    \/ \E elapsed \in ElapsedReads : CoordinatorTick(elapsed)

SpecSink == Init /\ [][NextSink]_vars

\* ---------------------------------------------------------- SpecShutdown
\* SIGINT or SIGTERM: _signal_handler clears self.running, start_monitoring
\* leaves its loop and its finally clause cancels every task, the
\* orchestration loop's among them: CancelledError is raised at the await the
\* task is suspended in (it is no Exception, so no except clause of the run
\* catches it), "async with" releases the lock and the finally clause of
\* _execute_failover resets the flag.  Then run() calls shutdown(), where the
\* engine saves the checkpoint "shutdown".
Shutdown ==
    /\ pc[Engine] \in { "idle", "attempt", "backoff" }
    /\ pc' = [ pc EXCEPT ![Engine] = "cancelled" ]
    /\ locked' = FALSE
    /\ SetEngine([ EngineNow EXCEPT
                     !.flag = FALSE,
                     !.cps = CreateCheckpoint(@, "shutdown", current_state) ])
    /\ UNCHANGED << current_failover, waiters, retry_count, noncritical, roles,
                    target_env, step_index, attempt, result, histVars >>

\* The coordinator's background task is cancelled along with the others.
CoordinatorTickRunning(elapsed) ==
    /\ pc[Engine] # "cancelled"
    /\ CoordinatorTick(elapsed)

NextShutdown ==
    \/ \E h \in TickSnapshots : EngineTick(h, 0)
    \/ \E o \in SpecOutcomes, d \in DurationReads : AttemptReturns(Engine, o, d)
    \/ BackoffEnds(Engine)
    \/ \E elapsed \in ElapsedReads : CoordinatorTickRunning(elapsed)
    \/ Shutdown

SpecShutdown == Init /\ [][NextShutdown]_vars

\* ------------------------------------------------------- SpecCheckpoints
\* The checkpoint list under creations and cleanups.  A checkpoint's id is its
\* name with the time of its creation, counted in creations; initialize()
\* has created the first one.
InitCheckpoints ==
    /\ InitCoordinator
    /\ retry_count = DefaultRetryCount
    /\ noncritical = {}
    /\ roles = InitialRoles
    /\ current_state = "active_azure"
    /\ failover_in_progress = FALSE
    /\ old_state = "active_azure"
    /\ decision = NoDecision
    /\ rollback_checkpoints
         = << [ id |-> << "initial_state", 1 >>, state |-> "active_azure" ] >>
    /\ failover_history = << >>
    /\ state_metadata = InitialMetadata
    /\ snapshot = DefaultHealthStatus
    /\ NoHealthCheck

\* The creation time of the newest checkpoint of a list.
Newest(cps) == cps[Len(cps)].id[2]

\* _create_checkpoint is called.
CheckpointCreated ==
    /\ Newest(rollback_checkpoints) < MaxCreated
    /\ rollback_checkpoints'
         = CreateCheckpoint(rollback_checkpoints,
                            << "pre_failover", Newest(rollback_checkpoints) + 1 >>,
                            current_state)
    /\ UNCHANGED << coordVars, frameVars, histVars, current_state,
                    failover_in_progress, old_state, decision, failover_history,
                    state_metadata, snapshot, healthVars >>

\* _cleanup_old_checkpoints runs when the k oldest checkpoints of the list,
\* not all of them, are older than 24 hours.
CheckpointsCleaned(k) ==
    /\ k \in 1..(Len(rollback_checkpoints) - 1)
    /\ rollback_checkpoints' = CleanupOldCheckpoints(rollback_checkpoints, k)
    /\ UNCHANGED << coordVars, frameVars, histVars, current_state,
                    failover_in_progress, old_state, decision, failover_history,
                    state_metadata, snapshot, healthVars >>

NextCheckpoints ==
    \/ CheckpointCreated
    \/ \E k \in 1..MaxCheckpoints : CheckpointsCleaned(k)

SpecCheckpoints == InitCheckpoints /\ [][NextCheckpoints]_vars

\* ----------------------------------------------------------- SpecHistory
\* The decision maker applied in the states the orchestration loop reaches by
\* executing failovers: the loop runs on any snapshots, and then evaluates the
\* snapshot drawn at the start.
InitHistory ==
    /\ InitCoordinator
    /\ retry_count = DefaultRetryCount
    /\ noncritical = {}
    /\ roles = InitialRoles
    /\ current_state = "active_azure"
    /\ failover_in_progress = FALSE
    /\ old_state = "active_azure"
    /\ decision = NoDecision
    /\ rollback_checkpoints = << [ id |-> "initial_state", state |-> "active_azure" ] >>
    /\ failover_history = << >>
    /\ state_metadata = InitialMetadata
    /\ snapshot \in TickSnapshots
    /\ NoHealthCheck

NextHistory ==
    \/ \E h \in TickSnapshots : EngineTick(h, 0)
    \/ \E o \in SpecOutcomes, d \in DurationReads : AttemptReturns(Engine, o, d)
    \/ BackoffEnds(Engine)
    \/ \E elapsed \in ElapsedReads : CoordinatorTick(elapsed)
    \/ Evaluate

SpecHistory == InitHistory /\ [][NextHistory]_vars

\* ------------------------------------------------------------- SpecError
\* The orchestration loop after a failover to gcp, decided on snapshot h, has
\* raised inside _execute_failover: DrState is ERROR, the failure is recorded,
\* and the loop goes on with its next iteration.
InitError ==
    /\ InitCoordinator
    /\ retry_count = DefaultRetryCount
    /\ noncritical = {}
    /\ roles = InitialRoles
    /\ snapshot = DefaultHealthStatus
    /\ NoHealthCheck
    /\ \E h \in TickSnapshots :
          LET dec == EvaluateFailoverDecision(h, "active_azure", FALSE,
                                              InitialMetadata.avg_failover_time)
              fresh == [ state |-> "active_azure", flag |-> FALSE,
                         old |-> "active_azure", dec |-> dec,
                         cps |-> << [ id |-> "initial_state",
                                      state |-> "active_azure" ] >>,
                         hist |-> << >>, meta |-> InitialMetadata ]
              e == FailFailover(BeginFailover(fresh))
          IN  /\ dec.should_failover
              /\ current_state = e.state
              /\ failover_in_progress = e.flag
              /\ old_state = e.old
              /\ decision = e.dec
              /\ rollback_checkpoints = e.cps
              /\ failover_history = e.hist
              /\ state_metadata = e.meta

NextError ==
    \/ \E h \in TickSnapshots : EngineTick(h, 0)
    \/ \E o \in SpecOutcomes, d \in DurationReads : AttemptReturns(Engine, o, d)
    \/ BackoffEnds(Engine)
    \/ \E elapsed \in ElapsedReads : CoordinatorTick(elapsed)

SpecError == InitError /\ [][NextError]_vars

\* ---------------------------------------------------------- SpecRollback
\* The orchestration loop after a failover to gcp, decided on snapshot h, has
\* succeeded: DrState is ACTIVE_GCP.  From then on the health assessment
\* returns the same snapshot at every iteration.  Every task that is ready
\* runs, and every step handler returns.
InitRollback ==
    /\ InitCoordinator
    /\ retry_count = DefaultRetryCount
    /\ noncritical = {}
    /\ roles = InitialRoles
    /\ snapshot \in TickSnapshots
    /\ NoHealthCheck
    /\ \E h \in TickSnapshots, d \in DurationReads :
          LET dec == EvaluateFailoverDecision(h, "active_azure", FALSE,
                                              InitialMetadata.avg_failover_time)
              fresh == [ state |-> "active_azure", flag |-> FALSE,
                         old |-> "active_azure", dec |-> dec,
                         cps |-> << [ id |-> "initial_state",
                                      state |-> "active_azure" ] >>,
                         hist |-> << >>, meta |-> InitialMetadata ]
              e == FinishFailover(BeginFailover(fresh),
                                  [ success |-> TRUE, steps_completed |-> NumSteps ], d)
          IN  /\ dec.should_failover
              /\ current_state = e.state
              /\ failover_in_progress = e.flag
              /\ old_state = e.old
              /\ decision = e.dec
              /\ rollback_checkpoints = e.cps
              /\ failover_history = e.hist
              /\ state_metadata = e.meta

NextRollback ==
    \/ EngineTick(snapshot, 0)
    \/ \E o \in SpecOutcomes, d \in DurationReads : AttemptReturns(Engine, o, d)
    \/ BackoffEnds(Engine)
    \/ \E elapsed \in ElapsedReads : CoordinatorTick(elapsed)

SpecRollback ==
    /\ InitRollback
    /\ [][NextRollback]_vars
    /\ WF_vars(EngineTick(snapshot, 0))
    /\ WF_vars(\E o \in SpecOutcomes, d \in DurationReads : AttemptReturns(Engine, o, d))
    /\ WF_vars(BackoffEnds(Engine))
    /\ WF_vars(\E elapsed \in ElapsedReads : CoordinatorTick(elapsed))

\* ------------------------------------------------------------ SpecHealth
\* The health checks as functions of what their probes return: the results of
\* the five gathered checks are drawn at the start, those of the three Azure
\* checks when the monitor runs them.
InitHealth ==
    /\ InitCoordinator
    /\ retry_count = DefaultRetryCount
    /\ noncritical = {}
    /\ roles = InitialRoles
    /\ current_state = "active_azure"
    /\ failover_in_progress = FALSE
    /\ old_state = "active_azure"
    /\ decision = NoDecision
    /\ rollback_checkpoints = << [ id |-> "initial_state", state |-> "active_azure" ] >>
    /\ failover_history = << >>
    /\ state_metadata = InitialMetadata
    /\ snapshot = DefaultHealthStatus
    /\ health_results \in { res \in [ DOMAIN Services -> UNION { CheckResults(Services[i]) :
                                                               i \in DOMAIN Services } ] :
                              \A i \in DOMAIN Services : res[i].service = Services[i] }
    /\ health_summary = NoSummary
    /\ current_health = NoHealth
    /\ failover_decision = NotAsked
    /\ canary = NoCanary

\* health_check_endpoint: one call of execute_comprehensive_health_check.
HealthCheckEndpoint ==
    /\ health_summary = NoSummary
    /\ health_summary' = ExecuteComprehensiveHealthCheck(health_results)
    /\ UNCHANGED << coordVars, frameVars, engineVars, histVars, health_results,
                    current_health, failover_decision, canary >>

\* _check_azure_infrastructure: the report of _check_azure_health becomes
\* current_health["azure"].
CheckAzureInfrastructure ==
    /\ current_health = NoHealth
    /\ \E sql_mi, aks, network \in SubCheckResults :
          current_health' = CheckAzureHealth(sql_mi, aks, network, FALSE)
    /\ UNCHANGED << coordVars, frameVars, engineVars, histVars, health_results,
                    health_summary, failover_decision, canary >>

\* dr_event_processor on an event of type 'health_check'.
DrEventProcessor ==
    /\ health_summary = NoSummary
    /\ LET health_result == ExecuteComprehensiveHealthCheck(health_results)
       IN  /\ health_summary' = health_result
           /\ failover_decision' = IF DecisionWanted(health_result)
                                    THEN TriggerFailoverDecision(health_result)
                                    ELSE NotAsked
    /\ UNCHANGED << coordVars, frameVars, engineVars, histVars, health_results,
                    current_health, canary >>

NextHealth ==
    \/ HealthCheckEndpoint
    \/ DrEventProcessor
    \/ CheckAzureInfrastructure

SpecHealth == InitHealth /\ [][NextHealth]_vars

\* ------------------------------------------------------------ SpecCanary
\* One canary failover, from the construction of SecurityHardenedFailover to
\* the result of execute_canary_failover.
NextCanary ==
    \/ \E full \in { DefaultFullScaleReplicas, NodeLimit + 1 }, dns \in BOOLEAN :
          LoadSecureConfig(full, dns)
    \/ \E ok \in BOOLEAN : Authentication(ok)
    \/ \E scale \in ScaleOutcomes : NodepoolScaleCanary(scale)
    \/ \E ready \in BOOLEAN : NodesReady(ready)
    \/ \E outcome \in DeployOutcomes : CanaryDeploy(outcome)
    \/ \E healthy \in BOOLEAN : CanaryValidation(healthy)
    \/ \E scale \in ScaleOutcomes, ready \in BOOLEAN, outcome \in FullDeploymentOutcomes :
          FullScale(scale, ready, outcome)
    \/ \E outcome \in DnsOutcomes : DnsUpdate(outcome)
    \/ \E deleted \in BOOLEAN, scale \in ScaleOutcomes : CanaryFailed(deleted, scale)

SpecCanary == Init /\ [][NextCanary]_vars

\* ------------------------------------------------------------ properties
\* Task c is inside the step sequence of a run.
Executing(c) == pc[c] \in { "attempt", "backoff" }

\* The trigger task c called has returned.
Returned(c) == pc[c] \in { "idle", "done" } /\ ~HasKey(result[c], "pending")

Last(seq) == seq[Len(seq)]

Range(seq) == { seq[i] : i \in 1..Len(seq) }

\* C1: at most one failover run is executing at any time: the step sequences
\* of two runs never overlap, whoever called the triggers (orchestration loop,
\* manual caller, or both) and in whatever interleaving.
C1_SingleFlight ==
    /\ \A c1, c2 \in Callers : Executing(c1) /\ Executing(c2) => c1 = c2
    /\ \A c \in Callers : Executing(c) => locked

\* A run is past its first step while the other task's trigger call is pending.
C1_Witness ==
    /\ Executing("manual")
    /\ step_index["manual"] = 2
    /\ pc[Engine] = "wait_lock"

\* C2: a trigger called while a run is active returns 'Failover already in
\* progress' at once: the call does not wait for the running run, is not
\* queued, and never starts a run of its own later.
C2_RejectedAtOnce ==
    [][ \A c \in Callers :
          /\ pc'[c] # "wait_lock"
          /\ pc[c] = "wait_lock" => ~Executing(c)' ]_vars

\* A step of task c's run that failed on every attempt was critical.
CriticalStepExhausted(c) ==
    /\ Returned(c)
    /\ failed[c] # << >>
    /\ Critical(Last(failed[c]))

\* C3: if a critical step fails on every attempt, the run's final status is
\* 'failed' and, once the trigger has returned to the orchestrator, DrState is
\* what it was before the run; it is not left as FAILOVER_IN_PROGRESS.
C3_CriticalAbortReverts ==
    CriticalStepExhausted(Engine) =>
        /\ run_status[Engine] = "failed"
        /\ current_state = old_state
        /\ current_state # InProgressState

\* C4: a run stops at the first critical step that fails: no later step of the
\* list is executed in that run, and the result names that step as failed_step.
C4_StopsAtFirstCriticalFailure ==
    \A c \in Callers : \A j \in 1..Len(failed[c]) :
        Critical(failed[c][j]) =>
            /\ Returned(c)
            /\ Last(executed[c]) = failed[c][j]
            /\ HasKey(result[c], "failed_step")
            /\ result[c].failed_step = StepsFor(target_env[c])[failed[c][j]]

\* C5: if a non-critical step fails on all its attempts while every critical
\* step succeeds, the run goes on with the following steps and ends with
\* status 'completed' and a successful result.
C5_NonCriticalTolerated ==
    \A c \in Callers :
        ( /\ Returned(c)
          /\ failed[c] # << >>
          /\ \A i \in Range(failed[c]) : ~Critical(i) )
        => /\ Len(executed[c]) = NumSteps
           /\ run_status[c] = "completed"
           /\ result[c].success

\* The delays 2^0, 2^1, ... before attempts 2, 3, ..., n.
BackoffSchedule(n) == [ k \in 1..(n - 1) |-> Pow2(k - 1) ]

\* C6: a step with retry_count = n >= 1 whose action fails on every attempt is
\* attempted exactly n times, the delay before attempt k+1 is 2^k seconds, no
\* delay follows the last attempt, and the step returns failure with the last
\* attempt's error; once an attempt succeeds no further attempt is made.
C6_RetryBackoff ==
    \A c \in Callers :
        /\ ( HasKey(step_result[c], "success") /\ ~step_result[c].success ) =>
              /\ attempts[c] = retry_count
              /\ delays[c] = BackoffSchedule(retry_count)
              /\ last_outcome[c].kind # "ok"
              /\ step_result[c].error = last_outcome[c].error
        /\ ( HasKey(step_result[c], "success") /\ step_result[c].success ) =>
              /\ last_outcome[c].kind = "ok"
              /\ attempts[c] <= retry_count
              /\ delays[c] = BackoffSchedule(attempts[c])
        /\ pc[c] = "backoff" =>
              /\ last_outcome[c].kind # "ok"
              /\ attempts[c] < retry_count
              /\ delays[c] = BackoffSchedule(attempts[c] + 1)

\* A step configured with MaxRetry attempts failed on all of them, the
\* attempts ending in different errors.
C6_Witness ==
    /\ retry_count = MaxRetry
    /\ HasKey(step_result[Engine], "success")
    /\ ~step_result[Engine].success
    /\ attempts[Engine] = MaxRetry
    /\ Len(delays[Engine]) = MaxRetry - 1
    /\ last_outcome[Engine].kind = "raise"

\* Every step of task c's run was executed and none failed.
AllStepsSucceeded(c) ==
    /\ Returned(c)
    /\ Len(executed[c]) = NumSteps
    /\ failed[c] = << >>

\* C7: when every step of the azure_to_gcp sequence succeeds, the run's status
\* is 'completed', the trigger returns success with all 8 steps completed, and
\* DrState becomes ACTIVE_GCP; and ACTIVE_AZURE for a gcp_to_azure run.
C7_SuccessfulRun ==
    AllStepsSucceeded(Engine) =>
        /\ run_status[Engine] = "completed"
        /\ result[Engine].success
        /\ result[Engine].steps_completed = NumSteps
        /\ current_state = ActiveState(target_env[Engine])

\* The decision maker has been applied to the snapshot.
Decided == pc[Engine] = "decided"

\* The environment that is active in a DrState.
ActiveEnv(state) == IF state = "active_azure" THEN "azure" ELSE "gcp"
OtherEnv(env) == IF env = "azure" THEN "gcp" ELSE "azure"

\* A critical failure of environment env in snapshot h, as the claim lists them.
CriticalFailureOf(h, env) ==
    \/ h[env].overall_score < 50
    \/ ~h[env][IF env = "azure" THEN "sql_mi_available" ELSE "cloud_sql_available"]
    \/ HasKey(h[env], "region_status") /\ h[env].region_status = "outage"
    \/ HasKey(h[env], "network_latency") /\ h[env].network_latency > 500

\* C8: for every health snapshot, with no failover in progress: if the active
\* environment has overall_score < 0.5, or its database is unavailable, or its
\* region status is 'outage', or its latency exceeds 500 ms, evaluate returns
\* should_failover with the other environment as target.
C8_CriticalFailureFailsOver ==
    ( /\ Decided
      /\ ~failover_in_progress
      /\ current_state \in { "active_azure", "active_gcp" }
      /\ CriticalFailureOf(snapshot, ActiveEnv(current_state)) )
    => /\ decision.should_failover
       /\ decision.target_environment = OtherEnv(ActiveEnv(current_state))

\* C9: evaluate signals rollback (confidence 0.9) only when DrState is
\* ACTIVE_GCP and Azure has overall_score > 0.95, database and cluster
\* available and region healthy; in every other DrState no rollback is
\* signalled.
C9_RollbackOnlyWhenFailedOver ==
    ( Decided /\ decision.should_rollback ) =>
        /\ current_state = "active_gcp"
        /\ decision.confidence_score = 90
        /\ snapshot.azure.overall_score > 95
        /\ snapshot.azure.sql_mi_available
        /\ snapshot.azure.aks_available
        /\ snapshot.azure.region_status = "healthy"

\* C10: while DrState is FAILOVER_IN_PROGRESS evaluate returns the no-op
\* decision, whatever the snapshot.
C10_NoDecisionInProgress ==
    ( Decided /\ current_state = InProgressState ) =>
        /\ ~decision.should_failover
        /\ ~decision.should_rollback

\* Evaluated in FAILOVER_IN_PROGRESS on a snapshot whose rules all would fire:
\* the environment the rules look at is down and replication lags.
C10_Witness ==
    /\ Decided
    /\ current_state = InProgressState
    /\ snapshot # DefaultHealthStatus
    /\ snapshot.gcp.overall_score < CriticalScore
    /\ snapshot.striim.replication_lag_seconds > DataReplicationLagSeconds
    /\ decision = NoDecision

\* The watchdog has marked the run task c is executing.
TimedOut(c) == run_status[c] = "timeout"

C12_TimeoutRevertsDrState ==
    TimedOut(Engine) ~> current_state # InProgressState

\* C13: every attempt of a step is ended when the step's timeout_seconds have
\* passed, so every run the orchestration loop triggers reaches a final
\* status and releases the run lock.
C13_RunTerminates ==
    run_status[Engine] = "in_progress"
        ~> (run_status[Engine] \in FinalStatuses /\ Returned(Engine) /\ ~locked)

\* The trigger task c called returns a rejection in this step.
RejectedNow(c) ==
    /\ pc[c] \in { "idle", "done", "wait_lock" }
    /\ \/ pc'[c] # pc[c]
       \/ result'[c] # result[c]
       \/ c = Engine /\ failover_history' # failover_history
    /\ Returned(c)'
    /\ HasKey(result'[c], "current_failover_id")

\* The record the coordinator holds is of a run that has ended.
HoldsEndedRun == current_failover # NoRun /\ current_failover.status \in FinalStatuses

\* C14: a run that has ended (completed, failed, error or timeout) does not
\* count as active: a trigger that finds the record of an ended run is not
\* rejected.
C14_EndedRunNotActive ==
    [][ \A c \in Callers : RejectedNow(c) => ~HoldsEndedRun ]_vars

\* C15: a trigger rejected with 'Failover already in progress' changes nothing
\* in the coordinator: the existing run's record (id, type, status,
\* current_step, steps_completed, steps_failed) is what it was, and the
\* rejection carries the id of that run.
C15_RejectionChangesNothing ==
    [][ \A c \in Callers :
          RejectedNow(c)
            => /\ current_failover # NoRun
               /\ current_failover' = current_failover
               /\ result'[c].error = << "Failover already in progress" >>
               /\ result'[c].current_failover_id = current_failover.id ]_vars

\* A trigger was rejected while the run of another task is executing with
\* steps already completed.
C15_Witness ==
    \E c, r \in Callers :
        /\ c # r
        /\ Returned(c)
        /\ HasKey(result[c], "current_failover_id")
        /\ Executing(r)
        /\ current_failover # NoRun
        /\ current_failover.status = "in_progress"
        /\ current_failover.id = result[c].current_failover_id
        /\ current_failover.steps_completed # << >>

\* C16: whenever the coordinator holds a run with status 'in_progress',
\* DrState is FAILOVER_IN_PROGRESS, whether the orchestration loop or a
\* direct call of a trigger started the run.
C16_InProgressRunMeansInProgressState ==
    (current_failover # NoRun /\ current_failover.status = "in_progress")
        => current_state = InProgressState

\* C17: within a run the steps execute one at a time, in the order of the
\* run's step list: the steps begun so far are the first ones of the list in
\* order, the step executing is the last one begun, and it began only after
\* every step before it had finished (each is recorded as completed or as
\* failed).
C17_StepsInListOrder ==
    \A c \in Callers :
        /\ \A k \in 1..Len(executed[c]) : executed[c][k] = k
        /\ Executing(c) =>
             /\ executed[c] # << >>
             /\ step_index[c] = Last(executed[c])
             /\ current_failover # NoRun =>
                  /\ current_failover.current_step
                       = StepsFor(target_env[c])[step_index[c]]
                  /\ Range(current_failover.steps_completed)
                       \cup Range(current_failover.steps_failed)
                     = { StepsFor(target_env[c])[k] : k \in 1..(step_index[c] - 1) }
                  /\ Len(current_failover.steps_completed)
                       + Len(current_failover.steps_failed) = step_index[c] - 1

\* The last step of the list is executing after an earlier step has failed.
C17_Witness ==
    /\ Executing(Engine)
    /\ step_index[Engine] = NumSteps
    /\ current_failover # NoRun
    /\ current_failover.steps_failed # << >>

\* What an engine that has executed no failover decides on the snapshot in the
\* DrState the engine is in.
FreshDecision ==
    EvaluateFailoverDecision(snapshot, current_state,
                             current_state = InProgressState,
                             InitialMetadata.avg_failover_time)

\* The fields of a decision other than estimated_rto.
Verdict(dec) ==
    [ should_failover |-> dec.should_failover,
      should_rollback |-> dec.should_rollback,
      target_environment |-> dec.target_environment,
      reason |-> dec.reason,
      confidence_score |-> dec.confidence_score ]

\* C18: the decision is a function of the snapshot and of DrState: whatever
\* failovers the engine has executed before, it decides what an engine that
\* has executed none decides on the same snapshot in the same DrState, in
\* every field, estimated_rto included.
C18_DecisionIgnoresHistory ==
    Decided => decision = FreshDecision

\* C18, amended: the same in every field other than estimated_rto.
C18_VerdictIgnoresHistory ==
    Decided => Verdict(decision) = Verdict(FreshDecision)

\* A failover decision taken after failovers that changed the average
\* duration; DrState is what it was at the start.
C18_Witness ==
    /\ Decided
    /\ decision.should_failover
    /\ current_state = "active_azure"
    /\ state_metadata.avg_failover_time = Ratio(240, 1)
    /\ Len(failover_history) = 2

\* C19: once DrState is ERROR it stays ERROR: no iteration of the
\* orchestration loop moves it to another state or starts a failover.
C19_ErrorIsTerminal ==
    [][ current_state = ErrorState
          => /\ current_state' = ErrorState
             /\ pc[Engine] = "idle" => pc'[Engine] = "idle" ]_vars

\* DrState.ACTIVE_AZURE and DrState.ACTIVE_GCP
ActiveStates == { "active_azure", "active_gcp" }

\* C20: DrState changes only along the defined edges: from an ACTIVE state to
\* FAILOVER_IN_PROGRESS when a run starts; from FAILOVER_IN_PROGRESS to the
\* target's ACTIVE state when the run succeeded, back to the state before the
\* run when it failed, or to ERROR; never between ACTIVE_AZURE and ACTIVE_GCP
\* directly.
C20_DefinedEdges ==
    [][ current_state' # current_state
          => \/ /\ current_state \in ActiveStates
                /\ current_state' = InProgressState
                /\ old_state' = current_state
             \/ /\ current_state = InProgressState
                /\ Returned(Engine)'
                /\ \/ /\ result'[Engine].success
                      /\ current_state' = ActiveState(decision.target_environment)
                   \/ /\ ~result'[Engine].success
                      /\ current_state' = old_state
                   \/ current_state' = ErrorState ]_vars

\* The decision maker signals a rollback on the snapshot the assessment returns.
RollbackDue ==
    EvaluateFailoverDecision(snapshot, current_state, failover_in_progress,
                             state_metadata.avg_failover_time).should_rollback

\* C21: rollback is symmetric to failover: while the system is failed over
\* (ACTIVE_GCP) and the primary stays recovered, so that the loop acts on a
\* rollback decision at every iteration, DrState eventually returns to
\* ACTIVE_AZURE.
C21_RollbackReturnsToPrimary ==
    (current_state = "active_gcp" /\ RollbackDue) ~> current_state = "active_azure"

\* C22: the orchestration loop never exits because of an error inside an
\* iteration: whatever raises during a tick, the error handling included, the
\* loop runs its next iteration.
C22_LoopNeverExits == pc[Engine] # "exited"

\* C23: a failure of the metrics sink never affects orchestration: when the
\* trigger of the orchestration loop's run returns, the run's record with its
\* status, the result returned and the resulting DrState are what they are
\* when every metric is recorded, whether or not record_metric raised.
C23_SinkFailureChangesNothing ==
    [][ (pc[Engine] = "attempt" /\ pc'[Engine] \notin { "attempt", "backoff" })
          => \E d \in DurationReads :
               LET out == AfterStep(current_failover, target_env[Engine],
                                    step_index[Engine],
                                    SingleStepResult(last_outcome'[Engine]))
                   fin == FinishFailover(EngineNow, out.res, d)
               IN  /\ result'[Engine] = out.res
                   /\ current_failover' = out.cf
                   /\ run_status'[Engine]
                        = IF out.cf = NoRun THEN run_status[Engine] ELSE out.cf.status
                   /\ current_state' = fin.state ]_vars

\* C24: on a shutdown signal a failover run in flight is allowed to run to
\* its completion or to its timeout: the task executing the run is not
\* cancelled in the middle of a step.
C24_ShutdownDrainsRun ==
    [][ (pc[Engine] # "cancelled" /\ pc'[Engine] = "cancelled")
          => ~Executing(Engine) ]_vars

\* C25: with no critical failure of the active environment and no failover in
\* progress, evaluate returns should_failover (confidence 0.85, reason
\* performance degradation, target the environment that is not active)
\* exactly when the replication lag is strictly greater than 30 seconds.
C25_LagAboveThresholdFailsOver ==
    ( /\ Decided
      /\ ~failover_in_progress
      /\ ~CriticalFailureOf(snapshot, ActiveEnv(current_state)) )
    => /\ decision.should_failover <=> snapshot.striim.replication_lag_seconds > 30
       /\ decision.should_failover =>
            /\ decision.confidence_score = 85
            /\ decision.reason[1] = "performance_degradation"
            /\ current_state \in ActiveStates =>
                 decision.target_environment = OtherEnv(ActiveEnv(current_state))

\* A lag of 31 seconds alone makes the engine in ACTIVE_GCP fail over to azure.
C25_Witness ==
    /\ Decided
    /\ current_state = "active_gcp"
    /\ ~CriticalFailureOf(snapshot, "gcp")
    /\ snapshot.striim.replication_lag_seconds = 31
    /\ decision.should_failover
    /\ decision.target_environment = "azure"
    /\ decision.confidence_score = 85

\* The position of the first of the four critical conditions, in the order
\* score, database, region, latency, that holds for environment env of
\* snapshot h; 0 when none holds.
FirstCritical(h, env) ==
    IF h[env].overall_score < 50 THEN 1
    ELSE IF ~h[env][IF env = "azure" THEN "sql_mi_available" ELSE "cloud_sql_available"]
    THEN 2
    ELSE IF h[env].region_status = "outage" THEN 3
    ELSE IF h[env].network_latency > 500 THEN 4
    ELSE 0

\* The number of the four critical conditions that hold.
CriticalCount(h, env) ==
    Cardinality({ i \in 1..4 :
        \/ i = 1 /\ h[env].overall_score < 50
        \/ i = 2 /\ ~h[env][IF env = "azure" THEN "sql_mi_available"
                                             ELSE "cloud_sql_available"]
        \/ i = 3 /\ h[env].region_status = "outage"
        \/ i = 4 /\ h[env].network_latency > 500 })

\* C26: the confidence and the reason of a critical-failure decision are
\* those of the first true condition in the order overall_score < 0.5 (0.9),
\* database unavailable (0.95), region outage (0.99), latency breach (0.8),
\* also when several conditions hold at once.
C26_FirstConditionDecides ==
    ( /\ Decided
      /\ decision.should_failover
      /\ decision.reason[1] # "performance_degradation" )
    => LET first == FirstCritical(snapshot, ActiveEnv(current_state)) IN
       /\ first # 0
       /\ decision.confidence_score = << 90, 95, 99, 80 >>[first]
       /\ decision.reason = << << "azure_service_degradation" >>,
                               << "azure_service_degradation" >>,
                               << "azure_region_outage" >>,
                               << "network_connectivity_loss" >> >>[first]

\* The database is down, the region is in outage and the latency is above the
\* threshold at once, with a score that is not critical: the database decides.
C26_Witness ==
    /\ Decided
    /\ current_state = "active_azure"
    /\ snapshot # DefaultHealthStatus
    /\ FirstCritical(snapshot, "azure") = 2
    /\ CriticalCount(snapshot, "azure") = 3
    /\ decision.confidence_score = 95

\* The checkpoints of a list were created one right after the other.
InCreationOrder(cps) ==
    \A i \in 1..(Len(cps) - 1) : cps[i + 1].id[2] = cps[i].id[2] + 1

\* C27: the checkpoint list never holds more than 10 entries, and the
\* entries retained are the most recently created ones, in creation order: a
\* creation adds the new checkpoint at the end and, when the list held 10,
\* drops the oldest one.
C27_LastTenCheckpoints ==
    [][ /\ Len(rollback_checkpoints') <= 10
        /\ InCreationOrder(rollback_checkpoints')
        /\ Len(rollback_checkpoints') >= Len(rollback_checkpoints) =>
             /\ Newest(rollback_checkpoints') = Newest(rollback_checkpoints) + 1
             /\ Len(rollback_checkpoints')
                  = IF Len(rollback_checkpoints) < 10
                    THEN Len(rollback_checkpoints) + 1 ELSE 10 ]_vars

\* Twelve checkpoints have been created and the list holds the last ten.
C27_Witness ==
    /\ Len(rollback_checkpoints) = 10
    /\ Newest(rollback_checkpoints) = 12
    /\ rollback_checkpoints[1].id[2] = 3

\* The overall score the check would report had the check at position i
\* answered that its service is up.
OverallWithUp(i) ==
    ExecuteComprehensiveHealthCheck(
        [ health_results EXCEPT ![i] = CheckUp(Services[i]) ]).overall_health_score

\* weight / total_weight of the service at position i.
NormalizedWeight(i) == FDiv(Weight(Services[i]), TotalWeight(health_results))

\* The float k units in the last place below x.
UlpsBelow(x, k) == Float(x.hi, x.lo - k, x.exp)

AllScoreOne == \A i \in DOMAIN health_results : health_results[i].health_score = FOne

\* C28 as stated: with weights 0.3 for azure_sql_mi, gcp_cloud_sql and
\* striim_cdc and 0.1 for azure_aks and gcp_gke, the overall score is 1.0 when
\* every service scores 1.0, and a critical service at 0 instead of 1.0 lowers
\* the overall score by at least weight / total_weight.
C28_LowersByNormalizedWeight ==
    health_summary # NoSummary =>
        /\ \A i \in DOMAIN Services :
              Weight(Services[i]) = IF i <= 3 THEN CriticalWeight ELSE OtherWeight
        /\ AllScoreOne => health_summary.overall_health_score = FOne
        /\ \A i \in DOMAIN critical_services :
              IsZero(health_results[i].health_score) =>
                  ~FLess(FSub(OverallWithUp(i), health_summary.overall_health_score),
                         NormalizedWeight(i))

\* C28, amended: the same, with the decrease within two units in the last
\* place of weight / total_weight, the rounding of the sum and of the quotient.
C28_LowersByRoundedWeight ==
    health_summary # NoSummary =>
        /\ \A i \in DOMAIN Services :
              Weight(Services[i]) = IF i <= 3 THEN CriticalWeight ELSE OtherWeight
        /\ AllScoreOne => health_summary.overall_health_score = FOne
        /\ \A i \in DOMAIN critical_services :
              IsZero(health_results[i].health_score) =>
                  /\ FLess(health_summary.overall_health_score, OverallWithUp(i))
                  /\ ~FLess(FSub(OverallWithUp(i), health_summary.overall_health_score),
                            UlpsBelow(NormalizedWeight(i), 2))

\* The report of a check that found one critical service at 0 and the rest at
\* 1.0.
C28_Witness ==
    /\ health_summary # NoSummary
    /\ \E i \in DOMAIN critical_services :
          /\ IsZero(health_results[i].health_score)
          /\ \A j \in DOMAIN health_results \ { i } : health_results[j].health_score = FOne

Answered(res) == res.error = None

AzureChecks == { "sql_mi", "aks", "network" }

\* The average _check_azure_health reports, from the entries of its report
\* with the failed checks counted as 0.
AverageOfAnswered(services) ==
    LET ScoreOf(name) == IF services[name].error = None THEN services[name].score
                         ELSE FZero
    IN  FDiv(FAdd(FAdd(ScoreOf("sql_mi"), ScoreOf("aks")), ScoreOf("network")), FInt(3))

\* C29: a failing health source never aborts the assessment.  When the probe
\* of a check of the comprehensive health check raises, the report is still
\* produced: it lists that service with score 0, status Error and no
\* connectivity, lists every other service with what its check returned, and
\* its overall score is the weighted sum of the other services alone.  When a
\* check of the Azure environment fails, the environment's report is still
\* produced: it lists that check as unavailable with score 0, and its overall
\* score is the average with the failed checks at 0.
C29_FailingSourceCountsZero ==
    /\ health_summary # NoSummary =>
          /\ health_summary.health_status \in { "HEALTHY", "DEGRADED", "UNHEALTHY" }
          /\ DOMAIN health_summary.services = { Services[i] : i \in DOMAIN Services }
          /\ \A i \in DOMAIN health_results :
                health_summary.services[Services[i]] = health_results[i]
          /\ \A i \in DOMAIN health_results :
                ~Answered(health_results[i]) =>
                    /\ IsZero(health_summary.services[Services[i]].health_score)
                    /\ health_summary.services[Services[i]].status = "Error"
                    /\ ~health_summary.services[Services[i]].connectivity
          /\ health_summary.overall_health_score
               = FDiv(WeightedScore(SelectSeq(health_results, Answered), 1, FZero),
                      TotalWeight(health_results))
    /\ current_health # NoHealth =>
          /\ current_health.status \in { "healthy", "warning", "critical" }
          /\ DOMAIN current_health.services = AzureChecks
          /\ \A name \in AzureChecks :
                ~Answered(current_health.services[name]) =>
                    /\ IsZero(current_health.services[name].score)
                    /\ ~current_health.services[name].available
          /\ current_health.overall_score = AverageOfAnswered(current_health.services)

\* Both reports produced although a probe of each raised while another
\* service answered healthy.
C29_Witness ==
    /\ health_summary # NoSummary
    /\ \E i, j \in DOMAIN health_results :
          /\ ~Answered(health_results[i])
          /\ health_results[j].health_score = FOne
    /\ current_health # NoHealth
    /\ \E m, n \in AzureChecks :
          /\ ~Answered(current_health.services[m])
          /\ current_health.services[n].score = FOne

\* C30 as stated: the estimated_rto of a failover decision is the average
\* duration of the successful failovers recorded so far, and rto_target when
\* none has succeeded yet.
C30_EstimateIsAverage ==
    Decided /\ decision.should_failover =>
        IF SuccessfulCount(failover_history) = 0
        THEN decision.estimated_rto = RtoTarget
        ELSE decision.estimated_rto * SuccessfulCount(failover_history)
               = TotalTime(failover_history)

\* C30, amended: it is that average truncated to whole seconds.
C30_EstimateIsTruncatedAverage ==
    Decided /\ decision.should_failover =>
        IF SuccessfulCount(failover_history) = 0
        THEN decision.estimated_rto = RtoTarget
        ELSE decision.estimated_rto
               = TotalTime(failover_history) \div SuccessfulCount(failover_history)

\* A failover decision taken after two successful failovers whose durations
\* average to no whole number of seconds.
C30_Witness ==
    /\ Decided
    /\ decision.should_failover
    /\ SuccessfulCount(failover_history) = 2
    /\ TotalTime(failover_history) % 2 = 1

\* C31: the snapshot of a failed assessment is evaluated like any other: in
\* ACTIVE_AZURE with no failover in progress the decision on it is a failover
\* to GCP, for the service degradation its overall_score 0 shows.
C31_DefaultSnapshotFailsOver ==
    /\ Decided
    /\ snapshot = DefaultHealthStatus
    /\ current_state = "active_azure"
    /\ ~failover_in_progress
    => /\ decision.should_failover
       /\ decision.target_environment = "gcp"
       /\ decision.confidence_score = ConfScore

\* C32: when a 'health_check' event is processed and the scores meet the
\* failover criteria (Azure SQL MI below 0.3, GCP Cloud SQL at least 0.8,
\* Striim at least 0.5), the automated failover is invoked.
C32_CriteriaInvokeFailover ==
    [][ DrEventProcessor /\ FailoverRequired(health_summary')
          => failover_decision'.decision = "FAILOVER_INITIATED" ]_vars

\* The stages recorded when the given stage raises: those before it.
StagesBefore(stage) ==
    LET i == CHOOSE k \in DOMAIN CanaryStages : CanaryStages[k] = stage
    IN  SubSeq(CanaryStages, 1, i - 1)

\* C33: in execute_canary_failover the DNS record points to GCP only after the
\* canary passed its health validation and the full-scale stage completed (and
\* until a rollback the node pool and the deployment are at full size); once a
\* stage has raised or the validation has failed, the stages recorded are
\* exactly those before it, and the call ends with the rollback started, by
\* deleting the canary deployment, and with success = false.
C33_DnsLastRollbackOnFailure ==
    /\ canary.dns = "gcp" =>
          /\ canary.canary_healthy
          /\ { "canary_validation", "full_scale" } \subseteq Range(canary.stages)
          /\ canary.rollback = << >> =>
                /\ canary.replicas = canary.full_scale_replicas
                /\ canary.node_count = canary.full_scale_replicas
    /\ canary.raised # None => canary.stages = StagesBefore(canary.raised)
    /\ canary.pc = "done" /\ canary.raised # None =>
          /\ canary.rollback # << >>
          /\ Head(canary.rollback) = "delete_deployment"
          /\ canary.result.success = FALSE
    /\ canary.pc = "done" /\ canary.raised = None =>
          /\ canary.result.success = TRUE
          /\ canary.stages = CanaryStages

\* The DNS change was created and stage 7 raised all the same: the record
\* points to GCP, the rollback has run and the call has reported its failure.
C33_Witness ==
    /\ canary.pc = "done"
    /\ canary.raised = "dns_update"
    /\ canary.dns = "gcp"
    /\ canary.rollback = << "delete_deployment", "scale_nodepool" >>
    /\ canary.replicas = 0
    /\ canary.result.success = FALSE

\* C34: the background cleanup never discards a run that is still executing:
\* whenever a task holds the run lock and is executing or about to execute a
\* step, current_failover is the record its trigger created (it is not None
\* and not the record of another run), however the coordinator's watchdog and
\* cleanup interleave with the run.
C34_CleanupSparesExecutingRun ==
    \A c \in Callers :
        Executing(c) =>
            /\ locked
            /\ current_failover # NoRun
            /\ current_failover.id = NewRun(target_env[c]).id

\* The position of a step name in the step list of a direction.
PositionIn(steps, name) == CHOOSE k \in DOMAIN steps : steps[k] = name

\* The positions of a sequence of step names increase.
InListOrder(steps, names) ==
    \A i, j \in DOMAIN names :
        i < j => PositionIn(steps, names[i]) < PositionIn(steps, names[j])

\* The steps task c's run has finished: those it began, but for the one it is
\* executing.
FinishedSteps(c) ==
    IF Executing(c) THEN Len(executed[c]) - 1 ELSE Len(executed[c])

\* The step list of a run record.
StepsOfRun(cf) ==
    IF cf.type = FailoverType("gcp") THEN StepsFor("gcp") ELSE StepsFor("azure")

\* C35: as long as the record of a run exists, no step name occurs twice in
\* steps_completed and steps_failed taken together, the names recorded are the
\* first steps of the direction's list, each list in the list's order, and
\* steps_failed holds at most one critical step, the last one recorded; and
\* until the next trigger call the names recorded are exactly the steps the
\* run has finished, a critical step among the failed ones being the last step
\* the run executed.
C35_StepRecordsArePrefix ==
    current_failover # NoRun =>
        LET completed == current_failover.steps_completed
            failures == current_failover.steps_failed
            steps == StepsOfRun(current_failover)
            recorded == Range(completed) \cup Range(failures)
            n == Len(completed) + Len(failures)
            critical == { j \in DOMAIN failures :
                            Critical(PositionIn(steps, failures[j])) }
        IN  /\ Cardinality(recorded) = n
            /\ recorded = { steps[k] : k \in 1..n }
            /\ InListOrder(steps, completed)
            /\ InListOrder(steps, failures)
            /\ Cardinality(critical) <= 1
            /\ \A j \in critical : j = Len(failures) /\ failures[j] = steps[n]
            /\ run_status[Engine] # "none" =>
                  /\ steps = StepsFor(target_env[Engine])
                  /\ n = FinishedSteps(Engine)
                  /\ critical # {} =>
                        /\ ~Executing(Engine)
                        /\ Last(executed[Engine]) = n

\* A run went past a failed non-critical step and then ended at a critical
\* step that failed: both are in steps_failed, after a completed step.
C35_Witness ==
    /\ current_failover # NoRun
    /\ run_status[Engine] = "failed"
    /\ Len(current_failover.steps_completed) >= 1
    /\ Len(current_failover.steps_failed) = 2
    /\ ~Critical(PositionIn(StepsFor(target_env[Engine]),
                            current_failover.steps_failed[1]))
    /\ Critical(PositionIn(StepsFor(target_env[Engine]),
                           current_failover.steps_failed[2]))

\* C36: no decision _evaluate_failover_decision returns has both
\* should_failover and should_rollback set; a failover decision names its
\* target environment, 'gcp' or 'azure', and a rollback decision or a decision
\* to do nothing names none.
C36_DecisionWellFormed ==
    Decided =>
        /\ ~(decision.should_failover /\ decision.should_rollback)
        /\ decision.should_failover => decision.target_environment \in { "gcp", "azure" }
        /\ ~decision.should_failover => decision.target_environment = None

\* A rollback decision, taken while GCP is active: it names no target.
C36_Witness ==
    /\ Decided
    /\ current_state = "active_gcp"
    /\ decision.should_rollback
    /\ ~decision.should_failover
    /\ decision.target_environment = None

\* C37: whenever no run is in progress and DrState is ACTIVE_AZURE or
\* ACTIVE_GCP, the database primary and the DNS routing, as the steps executed
\* so far have left them, are in the environment DrState names; so also after
\* a run that failed at a step following a successful switch_database_primary.
C37_RolesFollowDrState ==
    /\ ~failover_in_progress
    /\ \A c \in Callers : ~Executing(c)
    /\ current_state \in { "active_azure", "active_gcp" }
    => /\ roles.database = CurrentEnv(current_state)
       /\ roles.dns = CurrentEnv(current_state)

\* C38: the checkpoint created at the start of a failover (id 'pre_failover_...')
\* records the DrState that was active before the failover began, ACTIVE_AZURE
\* or ACTIVE_GCP, and not FAILOVER_IN_PROGRESS.
C38_PreFailoverCheckpointRecordsOldState ==
    [][ /\ rollback_checkpoints' # rollback_checkpoints
        /\ Last(rollback_checkpoints').id = "pre_failover"
        => /\ Last(rollback_checkpoints').state = current_state
           /\ Last(rollback_checkpoints').state \in { "active_azure", "active_gcp" } ]_vars

\* Both environments healthy, the replication lag above its threshold.
LagOnly ==
    [ azure |-> HealthyAzure, gcp |-> HealthyGcp,
      striim |-> StriimHealth(DataReplicationLagSeconds + 1) ]

\* The last failover the orchestration loop executed succeeded, was decided
\* for replication lag alone, and the engine is in the state it led to.
FailedOverForLag ==
    /\ pc[Engine] = "idle"
    /\ failover_history # << >>
    /\ Last(failover_history).success
    /\ decision.should_failover
    /\ decision.reason[1] = "performance_degradation"
    /\ current_state = ActiveState(decision.target_environment)

\* C39: the orchestrator does not ping-pong: after a successful failover that
\* replication lag alone triggered, a tick that finds the inputs unchanged
\* (both environments healthy, the lag still above the threshold) triggers no
\* further failover.
C39_NoPingPong ==
    [][ FailedOverForLag /\ EngineTick(LagOnly, 0)
          => /\ ~Executing(Engine)'
             /\ pc'[Engine] # "wait_lock"
             /\ current_state' = current_state ]_vars

====
